---- MODULE Spec2Model ----
(***************************************************************************)
(* Azure service usage analyzer: the aggregation of CSV rows into the      *)
(* category -> subcategory -> unit -> total mapping, the per-category      *)
(* totals, the category diff of two aggregates and the renderings of one   *)
(* and of two aggregates (src/new_azure_service_analyzer.py; the GUI class *)
(* in src/azure_analyzer_gui_new.py carries the same three functions, its  *)
(* own text renderings, and runs the analysis in worker threads).          *)
(*                                                                         *)
(* Four specifications: Spec is a run of main() on one or two files,       *)
(* SpecWorkers two interleaved calls of the GUI's analyze_azure_services,  *)
(* SpecTop the top-categories section of the reports on dicts of totals,   *)
(* SpecGui the GUI object: its buttons, its queued callbacks, its analysis *)
(* threads and generate_pdf.                                               *)
(*                                                                         *)
(* Text is a sequence of one-character strings, so that str.strip() and    *)
(* the lexicographic order of sorted() are computed, not assumed.  A       *)
(* Python dict is a sequence of [key, val] records in insertion order,     *)
(* which is the order its iteration follows.  A Python float is modelled   *)
(* by the integer it holds, with the significand narrowed to MantBits bits *)
(* and IEEE round-to-nearest-even kept, so that += rounds as it does in    *)
(* the program (CPython: 53 bits).                                         *)
(***************************************************************************)
EXTENDS Integers, Sequences, FiniteSets

VARIABLES
    argv,               \* the CSV files named on the command line (1 or 2)
    pc,                 \* position in main() / analyze_azure_services()
    call,               \* which file of argv is being analysed
    df_clean,           \* analyze_azure_services: rows after the two dropna
    it,                 \* analyze_azure_services: position of iterrows()
    service_data,       \* analyze_azure_services: the aggregate being built
    old_service_data,   \* main: result for argv[1] (None or a dict)
    new_service_data,   \* main: result for argv[2] (None or a dict)
    old_totals,         \* calculate_category_totals(old data)
    new_totals,         \* calculate_category_totals(new data)
    missing_services,   \* compare_service_data(old, new)[0]
    added_services,     \* compare_service_data(old, new)[1]
    printed,            \* the closing message main() prints
    errors,             \* the columns each "Missing required columns" error names
    displayed,          \* what the display function of main() emitted
    story,              \* what the PDF export emitted
    threads,            \* GUI: the worker threads (file, position, result)
    locals,             \* GUI: the frame of each running analyze_azure_services
    app,                \* GUI: the fields of the AzureAnalyzerGUI object
    after_queue,        \* GUI: the callbacks root.after(0, ...) has queued
    jobs,               \* GUI: the run_analysis / run_comparison threads
    ui,                 \* GUI: the position of the UI thread
    report,             \* GUI: what the last generate_pdf did
    history,            \* GUI: what has happened (for the properties only)
    top_totals,         \* top section: the totals it is given
    sorted_by_total,    \* top section: the entries it lists
    section             \* top section: the rendering that listed them

vars == <<argv, pc, call, df_clean, it, service_data, old_service_data,
          new_service_data, old_totals, new_totals, missing_services,
          added_services, printed, errors, displayed, story, threads, locals,
          app, after_queue, jobs, ui, report, history,
          top_totals, sorted_by_total, section>>

----------------------------------------------------------------------------
(* Bounds of the model *)

\* longest CSV file (in rows) of a single-file analysis
MaxRows == 3
\* longest CSV file (in rows) of each side of a comparison
MaxCmpRows == 2
\* bits of the float significand
MantBits == 4

----------------------------------------------------------------------------
(* Python values *)

\* the missing value pandas.read_csv yields for an empty field (float nan)
NaN == <<"NaN">>

\* str(float('nan'))
nan == <<"n", "a", "n">>

\* the sentinel of lines 63-71
NA == <<"N", "/", "A">>

\* str(x): text is itself, the missing value prints as 'nan'
Str(x) == IF x = NaN THEN nan ELSE x

IsSpace(c) == c \in {" ", "\t"}

RECURSIVE LStrip(_)
LStrip(s) == IF s # <<>> /\ IsSpace(Head(s)) THEN LStrip(Tail(s)) ELSE s

RECURSIVE RStrip(_)
RStrip(s) ==
    IF s # <<>> /\ IsSpace(s[Len(s)]) THEN RStrip(SubSeq(s, 1, Len(s) - 1)) ELSE s

\* str.strip()
Strip(s) == RStrip(LStrip(s))

\* ord(c) for the characters the model's texts use
Ord(c) ==
    CASE c = "\t" -> 9   [] c = " " -> 32  [] c = "-" -> 45  [] c = "/" -> 47
      [] c = "0" -> 48   [] c = "1" -> 49  [] c = "2" -> 50  [] c = "3" -> 51
      [] c = "4" -> 52   [] c = "5" -> 53  [] c = "6" -> 54  [] c = "7" -> 55
      [] c = "8" -> 56   [] c = "9" -> 57
      [] c = "A" -> 65   [] c = "B" -> 66  [] c = "C" -> 67  [] c = "G" -> 71
      [] c = "H" -> 72   [] c = "M" -> 77  [] c = "N" -> 78  [] c = "S" -> 83
      [] c = "V" -> 86   [] c = "a" -> 97  [] c = "n" -> 110 [] c = "x" -> 120

\* s < t on str: lexicographic by code point
RECURSIVE StrLess(_, _)
StrLess(s, t) ==
    IF s = <<>> THEN t # <<>>
    ELSE IF t = <<>> THEN FALSE
    ELSE IF Head(s) = Head(t) THEN StrLess(Tail(s), Tail(t))
    ELSE Ord(Head(s)) < Ord(Head(t))

\* sorted(S) of a set of str
RECURSIVE Sorted(_)
Sorted(S) ==
    IF S = {} THEN <<>>
    ELSE LET m == CHOOSE x \in S : \A y \in S \ {x} : StrLess(x, y)
         IN  <<m>> \o Sorted(S \ {m})

----------------------------------------------------------------------------
(* float *)

RECURSIVE Pow2(_)
Pow2(k) == IF k = 0 THEN 1 ELSE 2 * Pow2(k - 1)

Abs(n) == IF n < 0 THEN -n ELSE n

\* the spacing of the floats around magnitude a: the least power of two q
\* with a \div q < 2^MantBits
RECURSIVE Ulp(_, _)
Ulp(a, q) == IF a \div q < Pow2(MantBits) THEN q ELSE Ulp(a, 2 * q)

\* the float nearest to the integer n, ties to the even significand
RoundFloat(n) ==
    LET a  == Abs(n)
        q  == Ulp(a, 1)
        m  == a \div q
        r  == a % q
        m2 == IF 2 * r > q \/ (2 * r = q /\ m % 2 = 1) THEN m + 1 ELSE m
    IN  IF n < 0 THEN -(m2 * q) ELSE m2 * q

\* float.__add__
FloatAdd(a, b) == RoundFloat(a + b)

\* sum(xs): left to right from 0
RECURSIVE FloatSum(_)
FloatSum(xs) ==
    IF xs = <<>> THEN 0
    ELSE FloatAdd(FloatSum(SubSeq(xs, 1, Len(xs) - 1)), xs[Len(xs)])

\* sum() of ints, and len() summed over a collection
RECURSIVE IntSum(_)
IntSum(xs) == IF xs = <<>> THEN 0 ELSE Head(xs) + IntSum(Tail(xs))

\* the concatenation of a sequence of sequences
RECURSIVE Concat(_)
Concat(seqs) == IF seqs = <<>> THEN <<>> ELSE Head(seqs) \o Concat(Tail(seqs))

----------------------------------------------------------------------------
(* dict, in insertion order *)

KeySet(d) == {d[i].key : i \in 1..Len(d)}

Values(d) == [i \in 1..Len(d) |-> d[i].val]

Has(d, k) == k \in KeySet(d)

Get(d, k) == d[CHOOSE i \in 1..Len(d) : d[i].key = k].val

\* d[k] = v: an existing key keeps its place, a new key goes last
Put(d, k, v) ==
    IF Has(d, k)
    THEN [i \in 1..Len(d) |-> IF d[i].key = k THEN [key |-> k, val |-> v] ELSE d[i]]
    ELSE Append(d, [key |-> k, val |-> v])

\* what analyze_azure_services returns: None, or dict(service_data)
None == [some |-> FALSE, d |-> <<>>]

Dict(d) == [some |-> TRUE, d |-> d]

\* bool(x) of None or a dict
Truthy(x) == x.some /\ x.d # <<>>

----------------------------------------------------------------------------
(* The CSV files the model draws its inputs from *)

required_columns == {"service_category", "service_sub_category", "service_unit", "total"}

Row(c, s, u, t) ==
    [service_category |-> c, service_sub_category |-> s, service_unit |-> u, total |-> t]

File(cols, rows) == [columns |-> cols, rows |-> rows]

VM == <<"V", "M">>

\* 16: with a 4-bit significand, the first float whose successor is 2 away
Big == <<"1", "6">>

\* rows of a single-file analysis: the scenario of the usage report
\* (Compute/VM/Hours 10 and 5, Storage/-/GB 3) and one row for each way a
\* cell can be missing, blank, padded or unparseable
SingleRows ==
    { Row(<<"C">>, VM, <<"H">>, <<"1", "0">>),
      Row(<<"C">>, VM, <<"H">>, <<"5">>),
      Row(<<"S">>, NaN, <<"G", "B">>, <<"3">>),
      Row(<<"S">>, VM, NaN, Big),
      Row(<<"S">>, <<" ", "V", "M", " ">>, <<" ">>, <<"1">>),
      Row(NaN, VM, <<"H">>, <<"1">>),
      Row(<<" ">>, VM, <<"H">>, <<"1">>),
      Row(<<"C">>, <<" ", "n", "a", "n", " ">>, NaN, <<"1">>),
      Row(<<"S">>, VM, <<"H">>, <<"x">>),
      Row(<<"S">>, VM, <<"H">>, NaN) }

\* rows of the two sides of a comparison
CmpRows ==
    { Row(<<"A">>, VM, <<"H">>, <<"1">>),
      Row(<<"A">>, NaN, <<"G", "B">>, <<"5">>),
      Row(<<"B">>, NaN, <<"H">>, <<"5">>),
      Row(<<"C">>, VM, <<"H">>, <<"1">>) }

SeqsUpTo(S, n) == UNION {[1..k -> S] : k \in 0..n}

----------------------------------------------------------------------------
(* analyze_azure_services *)

IsDigit(c) == c \in {"0", "1", "2", "3", "4", "5", "6", "7", "8", "9"}

RECURSIVE DigitsValue(_)
DigitsValue(s) ==
    IF s = <<>> THEN 0
    ELSE 10 * DigitsValue(SubSeq(s, 1, Len(s) - 1)) + (Ord(s[Len(s)]) - 48)

\* pd.to_numeric(x, errors='coerce') of one cell: the float a numeral
\* denotes, or nan for a missing cell or any other text
ToNumeric(x) ==
    LET neg  == x # <<>> /\ Head(x) = "-"
        body == IF neg THEN Tail(x) ELSE x
    IN  IF x # NaN /\ body # <<>> /\ \A i \in 1..Len(body) : IsDigit(body[i])
        THEN [isnan |-> FALSE,
              v |-> RoundFloat(IF neg THEN -DigitsValue(body) ELSE DigitsValue(body))]
        ELSE [isnan |-> TRUE, v |-> 0]

\* df.dropna(subset=['service_category'])
DropNaCategory(df) == SelectSeq(df, LAMBDA r : r.service_category # NaN)

\* mutant: fillna(0) in place of dropna, the unparseable amounts count as 0
DropNaTotal_fillna(df) ==
    [i \in 1..Len(df) |-> [df[i] EXCEPT !.total = ToNumeric(@).v]]

\* df_clean['total'] = pd.to_numeric(...); df_clean.dropna(subset=['total'])
DropNaTotal(df) ==
    LET num == [i \in 1..Len(df) |-> [df[i] EXCEPT !.total = ToNumeric(@)]]
        kept == SelectSeq(num, LAMBDA r : ~r.total.isnan)
    IN  [i \in 1..Len(kept) |-> [kept[i] EXCEPT !.total = @.v]]

\* the rows the loop sees
CleanRows(df) == DropNaTotal(DropNaCategory(df))

\* line 63
subcategory(row) ==
    IF Str(row.service_sub_category) # nan /\ Strip(Str(row.service_sub_category)) # <<>>
    THEN Strip(Str(row.service_sub_category))
    ELSE NA

\* line 69
unit(row) ==
    IF Str(row.service_unit) # nan /\ Strip(Str(row.service_unit)) # <<>>
    THEN Strip(Str(row.service_unit))
    ELSE NA

\* mutant: = in place of +=, the last row of a triple wins
AggregateRow_assign(sd, row) ==
    LET category == row.service_category
        subs     == IF Has(sd, category) THEN Get(sd, category) ELSE <<>>
        units    == IF Has(subs, subcategory(row)) THEN Get(subs, subcategory(row)) ELSE <<>>
    IN  Put(sd, category, Put(subs, subcategory(row), Put(units, unit(row), row.total)))

\* mutant: the amount is added twice
AggregateRow_twice(sd, row) ==
    LET category == row.service_category
        subs     == IF Has(sd, category) THEN Get(sd, category) ELSE <<>>
        units    == IF Has(subs, subcategory(row)) THEN Get(subs, subcategory(row)) ELSE <<>>
        before   == IF Has(units, unit(row)) THEN Get(units, unit(row)) ELSE 0
    IN  Put(sd, category,
            Put(subs, subcategory(row),
                Put(units, unit(row), FloatAdd(FloatAdd(before, row.total), row.total))))

\* mutant: the loop body also reads service_data[category]["N/A"], which
\* the defaultdict creates, empty, when the category does not hold it
AggregateRow_touch(sd, row) ==
    LET category == row.service_category
        subs     == IF Has(sd, category) THEN Get(sd, category) ELSE <<>>
        units    == IF Has(subs, subcategory(row)) THEN Get(subs, subcategory(row)) ELSE <<>>
        before   == IF Has(units, unit(row)) THEN Get(units, unit(row)) ELSE 0
        added    == Put(subs, subcategory(row), Put(units, unit(row), FloatAdd(before, row.total)))
    IN  Put(sd, category, IF Has(added, NA) THEN added ELSE Put(added, NA, <<>>))

\* the loop body: service_data[category][subcategory][unit] += total, each
\* missing level created on the way (defaultdict), a missing total being 0.0
AggregateRow(sd, row) ==
    LET category == row.service_category
        subs     == IF Has(sd, category) THEN Get(sd, category) ELSE <<>>
        units    == IF Has(subs, subcategory(row)) THEN Get(subs, subcategory(row)) ELSE <<>>
        before   == IF Has(units, unit(row)) THEN Get(units, unit(row)) ELSE 0
    IN  Put(sd, category,
            Put(subs, subcategory(row),
                Put(units, unit(row), FloatAdd(before, row.total))))

RECURSIVE AggregateRows(_, _)
AggregateRows(sd, df) ==
    IF df = <<>> THEN sd
    ELSE AggregateRows(AggregateRow(sd, Head(df)), Tail(df))

\* analyze_azure_services as a function of the file it reads
analyze_azure_services(file) ==
    IF ~(required_columns \subseteq file.columns) THEN None
    ELSE Dict(AggregateRows(<<>>, CleanRows(file.rows)))

----------------------------------------------------------------------------
(* calculate_category_totals, compare_service_data *)

\* mutant: the loop over the subcategories stops after the first one
UnitTotals_first(subcategories) ==
    IF subcategories = <<>> THEN <<>> ELSE Values(Head(subcategories).val)

\* the two inner loops: every unit total of every subcategory, in order
RECURSIVE UnitTotals(_)
UnitTotals(subcategories) ==
    IF subcategories = <<>> THEN <<>>
    ELSE Values(Head(subcategories).val) \o UnitTotals(Tail(subcategories))

RECURSIVE Accumulate(_, _)
Accumulate(category_total, amounts) ==
    IF amounts = <<>> THEN category_total
    ELSE Accumulate(FloatAdd(category_total, Head(amounts)), Tail(amounts))

\* mutant: category_total is reset in the subcategory loop, so only the last
\* subcategory counts
calculate_category_totals_reset(sd) ==
    [i \in 1..Len(sd) |->
        [key |-> sd[i].key,
         val |-> Accumulate(0, Values(sd[i].val[Len(sd[i].val)].val))]]

calculate_category_totals(sd) ==
    [i \in 1..Len(sd) |->
        [key |-> sd[i].key, val |-> Accumulate(0, UnitTotals(sd[i].val))]]

\* reversed(xs)
Reversed(xs) == [i \in 1..Len(xs) |-> xs[Len(xs) + 1 - i]]

\* mutant: the differences are returned unsorted (here: descending)
compare_service_data_unsorted(old_data, new_data) ==
    LET old_categories == IF Truthy(old_data) THEN KeySet(old_data.d) ELSE {}
        new_categories == IF Truthy(new_data) THEN KeySet(new_data.d) ELSE {}
    IN  <<Reversed(Sorted(old_categories \ new_categories)),
          Reversed(Sorted(new_categories \ old_categories))>>

\* mutant: added is every new category, the old ones not taken out
compare_service_data_added_all(old_data, new_data) ==
    LET old_categories == IF Truthy(old_data) THEN KeySet(old_data.d) ELSE {}
        new_categories == IF Truthy(new_data) THEN KeySet(new_data.d) ELSE {}
    IN  <<Sorted(old_categories \ new_categories), Sorted(new_categories)>>

\* mutant: missing is every old category, the new ones not taken out
compare_service_data_missing_all(old_data, new_data) ==
    LET old_categories == IF Truthy(old_data) THEN KeySet(old_data.d) ELSE {}
        new_categories == IF Truthy(new_data) THEN KeySet(new_data.d) ELSE {}
    IN  <<Sorted(old_categories), Sorted(new_categories \ old_categories)>>

\* mutant: a side that is None is taken to hold what the other side holds
compare_service_data_none_as_other(old_data, new_data) ==
    LET old_categories == IF old_data.some THEN KeySet(old_data.d) ELSE KeySet(new_data.d)
        new_categories == IF new_data.some THEN KeySet(new_data.d) ELSE KeySet(old_data.d)
    IN  <<Sorted(old_categories \ new_categories),
          Sorted(new_categories \ old_categories)>>

\* mutant: a category whose subcategories differ counts as missing and added
compare_service_data_deep(old_data, new_data) ==
    LET old_categories == IF Truthy(old_data) THEN KeySet(old_data.d) ELSE {}
        new_categories == IF Truthy(new_data) THEN KeySet(new_data.d) ELSE {}
        differ == {c \in old_categories \cap new_categories :
                       KeySet(Get(old_data.d, c)) # KeySet(Get(new_data.d, c))}
    IN  <<Sorted((old_categories \ new_categories) \cup differ),
          Sorted((new_categories \ old_categories) \cup differ)>>

compare_service_data(old_data, new_data) ==
    LET old_categories == IF Truthy(old_data) THEN KeySet(old_data.d) ELSE {}
        new_categories == IF Truthy(new_data) THEN KeySet(new_data.d) ELSE {}
    IN  <<Sorted(old_categories \ new_categories),
          Sorted(new_categories \ old_categories)>>

----------------------------------------------------------------------------
(* AzureAnalyzerGUI.calculate_category_totals, .compare_service_data: the  *)
(* methods of the GUI class, translated from their own text                *)

\* for unit in units: category_total += units[unit]
RECURSIVE GuiUnitLoop(_, _)
GuiUnitLoop(category_total, units) ==
    IF units = <<>> THEN category_total
    ELSE GuiUnitLoop(FloatAdd(category_total, Head(units).val), Tail(units))

\* for subcategory in subcategories: the unit loop on subcategories[subcategory]
RECURSIVE GuiSubcategoryLoop(_, _)
GuiSubcategoryLoop(category_total, subcategories) ==
    IF subcategories = <<>> THEN category_total
    ELSE GuiSubcategoryLoop(GuiUnitLoop(category_total, Head(subcategories).val),
                            Tail(subcategories))

\* for category in service_data: category_totals[category] = category_total
RECURSIVE GuiCategoryLoop(_, _)
GuiCategoryLoop(category_totals, sd) ==
    IF sd = <<>> THEN category_totals
    ELSE GuiCategoryLoop(Put(category_totals, Head(sd).key,
                             GuiSubcategoryLoop(0, Head(sd).val)),
                         Tail(sd))

AzureAnalyzerGUI_calculate_category_totals(sd) == GuiCategoryLoop(<<>>, sd)

AzureAnalyzerGUI_compare_service_data(old_data, new_data) ==
    LET old_categories == IF Truthy(old_data) THEN KeySet(old_data.d) ELSE {}
        new_categories == IF Truthy(new_data) THEN KeySet(new_data.d) ELSE {}
        missing == old_categories \ new_categories
        added == new_categories \ old_categories
    IN  <<Sorted(missing), Sorted(added)>>

----------------------------------------------------------------------------
(* The renderings of one aggregate: display_service_analysis (console),    *)
(* generate_single_analysis_pdf (PDF story), format_single_analysis (GUI)  *)

\* one emitted line: a heading (level "category", "subcategory"), an amount
\* (level "unit"), a total, or the mark of a category one side lacks
Line(level, key, amount) == [level |-> level, key |-> key, amount |-> amount]

\* mutant: the keys as the dict iterates them, in insertion order
SortedKeys_insertion(d) == [i \in 1..Len(d) |-> d[i].key]

\* sorted(d.keys())
SortedKeys(d) == Sorted(KeySet(d))

\* for unit in sorted_units: one line per unit, with its total
UnitLines(units) ==
    LET sorted_units == SortedKeys(units)
    IN  [i \in 1..Len(sorted_units) |->
            Line("unit", sorted_units[i], Get(units, sorted_units[i]))]

\* subcategory_total += total_amount, over the sorted units
SubcategoryTotal(units) ==
    LET sorted_units == SortedKeys(units)
    IN  Accumulate(0, [i \in 1..Len(sorted_units) |-> Get(units, sorted_units[i])])

\* for subcategory in sorted_subcategories: its heading, its unit lines and,
\* where the rendering prints one, its total
SubcategoryLines(subcategories, with_total) ==
    LET sorted_subcategories == SortedKeys(subcategories)
    IN  Concat([i \in 1..Len(sorted_subcategories) |->
            LET units == Get(subcategories, sorted_subcategories[i])
            IN  <<Line("subcategory", sorted_subcategories[i], 0)>>
                \o UnitLines(units)
                \o (IF with_total
                    THEN <<Line("subcategory_total", sorted_subcategories[i],
                                SubcategoryTotal(units))>>
                    ELSE <<>>)])

\* mutant: category_total = subcategory_total, the last subcategory wins
InlineCategoryTotal_assigned(subcategories) ==
    LET sorted_subcategories == SortedKeys(subcategories)
    IN  SubcategoryTotal(Get(subcategories,
                             sorted_subcategories[Len(sorted_subcategories)]))

\* category_total += subcategory_total, over the sorted subcategories
InlineCategoryTotal(subcategories) ==
    LET sorted_subcategories == SortedKeys(subcategories)
    IN  Accumulate(0, [i \in 1..Len(sorted_subcategories) |->
                          SubcategoryTotal(Get(subcategories, sorted_subcategories[i]))])

\* the category_totals dict the display builds while it prints
InlineTotals(sd) ==
    LET sorted_categories == SortedKeys(sd)
    IN  [i \in 1..Len(sorted_categories) |->
            [key |-> sorted_categories[i],
             val |-> InlineCategoryTotal(Get(sd, sorted_categories[i]))]]

\* for category in sorted_categories: heading, subcategories, category total
Breakdown(sd, category_totals) ==
    LET sorted_categories == SortedKeys(sd)
    IN  Concat([i \in 1..Len(sorted_categories) |->
            <<Line("category", sorted_categories[i], 0)>>
            \o SubcategoryLines(Get(sd, sorted_categories[i]), TRUE)
            \o <<Line("category_total", sorted_categories[i],
                      Get(category_totals, sorted_categories[i]))>>])

\* len(service_data), the subcategories and the unit types counted over it
total_subcategories(sd) == IntSum([i \in 1..Len(sd) |-> Len(sd[i].val)])

total_unit_types(sd) ==
    IntSum([i \in 1..Len(sd) |->
               IntSum([j \in 1..Len(sd[i].val) |-> Len(sd[i].val[j].val)])])

\* the summary section: the three counts and the grand total
Summary(sd, category_totals) ==
    <<Len(sd), total_subcategories(sd), total_unit_types(sd),
      FloatSum(Values(category_totals))>>

\* a rendering that raised before it produced anything
RaisedSingle == [raised |-> TRUE, nodata |-> FALSE, lines |-> <<>>, summary |-> <<>>]

\* mutant: no guard for an aggregate without data, the report is printed
display_service_analysis_unguarded(data) ==
    [raised  |-> FALSE,
     nodata  |-> FALSE,
     lines   |-> Breakdown(data.d, InlineTotals(data.d)),
     summary |-> Summary(data.d, InlineTotals(data.d))]

\* display_service_analysis: "No data to display." for None or {}, else the
\* breakdown with the totals computed inline, then the summary
display_service_analysis(data) ==
    IF ~Truthy(data)
    THEN [raised |-> FALSE, nodata |-> TRUE, lines |-> <<>>, summary |-> <<>>]
    ELSE [raised  |-> FALSE,
          nodata  |-> FALSE,
          lines   |-> Breakdown(data.d, InlineTotals(data.d)),
          summary |-> Summary(data.d, InlineTotals(data.d))]

\* generate_single_analysis_pdf: service_data.keys() at line 150 raises on
\* None; the category totals are those of calculate_category_totals
generate_single_analysis_pdf(data) ==
    IF ~data.some THEN RaisedSingle
    ELSE LET category_totals == calculate_category_totals(data.d)
         IN  [raised  |-> FALSE,
              nodata  |-> FALSE,
              lines   |-> Breakdown(data.d, category_totals),
              summary |-> Summary(data.d, category_totals)]

\* GUI format_single_analysis: as the console display, without its guard
format_single_analysis(data) ==
    IF ~data.some THEN RaisedSingle
    ELSE [raised  |-> FALSE,
          nodata  |-> FALSE,
          lines   |-> Breakdown(data.d, InlineTotals(data.d)),
          summary |-> Summary(data.d, InlineTotals(data.d))]

----------------------------------------------------------------------------
(* The renderings of two aggregates: display_dual_service_comparison       *)
(* (console), generate_comparison_pdf (PDF story), format_comparison_-     *)
(* analysis (GUI).  Their arguments are None or a dict.                    *)

\* d.get(k, default)
DictGet(d, k, default) == IF Has(d, k) THEN Get(d, k) ELSE default

\* float.__sub__
FloatSub(a, b) == RoundFloat(a - b)

\* set(data.keys()) if data else set()
CategoriesOf(data) == IF Truthy(data) THEN KeySet(data.d) ELSE {}

\* calculate_category_totals(data) if data else {}
TotalsOf(data) == IF Truthy(data) THEN calculate_category_totals(data.d) ELSE <<>>

\* the summary of one side: len(data) if data else 0, and so on
SideSummary(data) ==
    IF Truthy(data)
    THEN Summary(data.d, calculate_category_totals(data.d))
    ELSE <<0, 0, 0, 0>>

\* the summary of one side without the unit types (PDF, GUI)
BriefSummary(data) ==
    <<SideSummary(data)[1], SideSummary(data)[2], SideSummary(data)[4]>>

\* console, one side of one category (lines 484-501, 505-526): the category
\* with its subcategories, units and total, or the MISSING mark.  The test
\* `category in data` is what raises on None, see the callers.
SideLines(data, category, is_new) ==
    IF Has(data.d, category)
    THEN <<Line(IF is_new THEN "category_new" ELSE "category", category, 0)>>
         \o SubcategoryLines(Get(data.d, category), FALSE)
         \o <<Line("category_total", category, DictGet(TotalsOf(data), category, 0))>>
    ELSE <<Line("missing", category, 0)>>

\* a comparison rendering that raised before it returned
RaisedComparison ==
    [raised |-> TRUE, left |-> <<>>, right |-> <<>>, rows |-> <<>>,
     summary |-> <<>>, missing |-> <<>>, added |-> <<>>]

\* display_dual_service_comparison: every category of either side in sorted
\* order, the old side on the left and the new side on the right, then the
\* summary and the service changes.  `category in old_data` (line 484) and
\* `category in new_data` (line 505) are evaluated for the first category
\* without a test for None: TypeError.
display_dual_service_comparison(old_data, new_data) ==
    LET sorted_categories == Sorted(CategoriesOf(old_data) \cup CategoriesOf(new_data))
    IN  IF sorted_categories # <<>> /\ ~(old_data.some /\ new_data.some)
        THEN RaisedComparison
        ELSE [raised  |-> FALSE,
              left    |-> Concat([i \in 1..Len(sorted_categories) |->
                              SideLines(old_data, sorted_categories[i], FALSE)]),
              right   |-> Concat([i \in 1..Len(sorted_categories) |->
                              SideLines(new_data, sorted_categories[i],
                                        ~Has(old_data.d, sorted_categories[i]))]),
              rows    |-> <<>>,
              summary |-> <<SideSummary(old_data), SideSummary(new_data)>>,
              missing |-> compare_service_data(old_data, new_data)[1],
              added   |-> compare_service_data(old_data, new_data)[2]]

\* GUI, one side of one category (lines 459-474, 479-496), under the
\* heading of the category: the NEW SERVICE and MISSING marks are lines of
\* their own
GuiSideLines(data, category, is_new) ==
    IF Has(data.d, category)
    THEN (IF is_new THEN <<Line("new_mark", category, 0)>> ELSE <<>>)
         \o SubcategoryLines(Get(data.d, category), FALSE)
         \o <<Line("category_total", category, DictGet(TotalsOf(data), category, 0))>>
    ELSE <<Line("missing_mark", category, 0)>>

\* GUI format_comparison_analysis: the category heading, then the OLD FILE
\* and the NEW FILE part; `category in old_data` (line 459) and `category in
\* new_data` (line 479) without a test for None, as on the console
format_comparison_analysis(old_data, new_data) ==
    LET sorted_categories == Sorted(CategoriesOf(old_data) \cup CategoriesOf(new_data))
    IN  IF sorted_categories # <<>> /\ ~(old_data.some /\ new_data.some)
        THEN RaisedComparison
        ELSE [raised  |-> FALSE,
              left    |-> Concat([i \in 1..Len(sorted_categories) |->
                              <<Line("category", sorted_categories[i], 0)>>
                              \o GuiSideLines(old_data, sorted_categories[i], FALSE)]),
              right   |-> Concat([i \in 1..Len(sorted_categories) |->
                              <<Line("category", sorted_categories[i], 0)>>
                              \o GuiSideLines(new_data, sorted_categories[i],
                                              ~Has(old_data.d, sorted_categories[i]))]),
              rows    |-> <<>>,
              summary |-> <<BriefSummary(old_data), BriefSummary(new_data)>>,
              missing |-> compare_service_data(old_data, new_data)[1],
              added   |-> compare_service_data(old_data, new_data)[2]]

\* one row of a "Detailed Service Comparison" table
DeltaRow(category, sub_key, unit_key, old_amount, new_amount) ==
    [category |-> category, subcategory |-> sub_key, unit |-> unit_key,
     old_amount |-> old_amount, new_amount |-> new_amount,
     change |-> FloatSub(new_amount, old_amount)]

\* lines 373-392: the table of one subcategory, a row per unit of either side
UnitRows(category, sub_key, old_sub_data, new_sub_data) ==
    LET all_units == Sorted(KeySet(old_sub_data) \cup KeySet(new_sub_data))
    IN  [i \in 1..Len(all_units) |->
            DeltaRow(category, sub_key, all_units[i],
                     DictGet(old_sub_data, all_units[i], 0),
                     DictGet(new_sub_data, all_units[i], 0))]

\* lines 365-373: the subcategories of either side of one category
SubcategoryRows(category, old_cat_data, new_cat_data) ==
    LET all_subcategories == Sorted(KeySet(old_cat_data) \cup KeySet(new_cat_data))
    IN  Concat([i \in 1..Len(all_subcategories) |->
            UnitRows(category, all_subcategories[i],
                     DictGet(old_cat_data, all_subcategories[i], <<>>),
                     DictGet(new_cat_data, all_subcategories[i], <<>>))])

\* mutant: the rows without a change are left out
ComparisonRows_changed(old_data, new_data) ==
    LET all_categories == Sorted(KeySet(old_data) \cup KeySet(new_data))
    IN  SelectSeq(Concat([i \in 1..Len(all_categories) |->
                      SubcategoryRows(all_categories[i],
                                      DictGet(old_data, all_categories[i], <<>>),
                                      DictGet(new_data, all_categories[i], <<>>))]),
                  LAMBDA row : row.change # 0)

\* lines 357-392: the detailed comparison, category by category
ComparisonRows(old_data, new_data) ==
    LET all_categories == Sorted(KeySet(old_data) \cup KeySet(new_data))
    IN  Concat([i \in 1..Len(all_categories) |->
            SubcategoryRows(all_categories[i],
                            DictGet(old_data, all_categories[i], <<>>),
                            DictGet(new_data, all_categories[i], <<>>))])

\* generate_comparison_pdf: the summary and the service changes (guarded by
\* `if old_data`), then the detailed comparison, whose first statement,
\* set(old_data.keys()) | set(new_data.keys()) (line 357), raises on None
generate_comparison_pdf(old_data, new_data) ==
    IF ~(old_data.some /\ new_data.some)
    THEN RaisedComparison
    ELSE [raised  |-> FALSE,
          left    |-> <<>>,
          right   |-> <<>>,
          rows    |-> ComparisonRows(old_data.d, new_data.d),
          summary |-> <<BriefSummary(old_data), BriefSummary(new_data)>>,
          missing |-> compare_service_data(old_data, new_data)[1],
          added   |-> compare_service_data(old_data, new_data)[2]]

----------------------------------------------------------------------------
(* What the reads of a rendering leave of an aggregate.  dict(service_data)  *)
(* makes the outer level a plain dict; the inner levels stay defaultdicts,  *)
(* where d[k] on a missing key inserts it.                                  *)

\* d[k] on a defaultdict, seen from d: a missing key is inserted
AfterGetItem(d, k, default) == IF Has(d, k) THEN d ELSE Put(d, k, default)

\* mutant: the value is read by indexing, d[k], which inserts a missing key
AfterDictGet_getitem(d, k, default) == IF Has(d, k) THEN d ELSE Put(d, k, default)

\* d.get(k, default), seen from d: nothing is inserted
AfterDictGet(d, k, default) == d

\* data[category][subcategory][unit] read by indexing, data[category] under
\* the test `category in data` (or with category drawn from data.keys())
AfterIndexing(data, t) ==
    IF ~Has(data, t[1]) THEN data
    ELSE LET subcategories == AfterGetItem(Get(data, t[1]), t[2], <<>>)
             units         == AfterGetItem(Get(subcategories, t[2]), t[3], 0)
         IN  Put(data, t[1], Put(subcategories, t[2], units))

RECURSIVE AfterIndexingAll(_, _)
AfterIndexingAll(data, ts) ==
    IF ts = <<>> THEN data
    ELSE AfterIndexingAll(AfterIndexing(data, Head(ts)), Tail(ts))

\* lines 362-379: data.get(category, {}).get(subcategory, {}).get(unit, 0);
\* a default returned for a missing key is a fresh object, not part of data
AfterGetting(data, t) ==
    LET after_category == AfterDictGet(data, t[1], <<>>)
    IN  IF ~Has(after_category, t[1]) THEN after_category
        ELSE LET cat_data == AfterDictGet(Get(after_category, t[1]), t[2], <<>>)
             IN  IF ~Has(cat_data, t[2]) THEN Put(after_category, t[1], cat_data)
                 ELSE Put(after_category, t[1],
                          Put(cat_data, t[2],
                              AfterDictGet(Get(cat_data, t[2]), t[3], 0)))

RECURSIVE AfterGettingAll(_, _)
AfterGettingAll(data, ts) ==
    IF ts = <<>> THEN data
    ELSE AfterGettingAll(AfterGetting(data, Head(ts)), Tail(ts))

\* the (category, subcategory, unit) a rendering of one aggregate reads, in
\* the order of its three sorted loops
ReadsOf(sd) ==
    LET sorted_categories == SortedKeys(sd)
    IN  Concat([i \in 1..Len(sorted_categories) |->
            LET subcategories == Get(sd, sorted_categories[i])
                sorted_subcategories == SortedKeys(subcategories)
            IN  Concat([j \in 1..Len(sorted_subcategories) |->
                    LET sorted_units == SortedKeys(Get(subcategories, sorted_subcategories[j]))
                    IN  [n \in 1..Len(sorted_units) |->
                            <<sorted_categories[i], sorted_subcategories[j], sorted_units[n]>>]])])

\* the keys the detailed comparison reads on either side
ReadsOfComparison(old_data, new_data) ==
    LET rows == ComparisonRows(old_data, new_data)
    IN  [i \in 1..Len(rows) |-> <<rows[i].category, rows[i].subcategory, rows[i].unit>>]

\* an aggregate (or None) after a rendering of it alone
AfterRendering(data) ==
    IF data.some THEN Dict(AfterIndexingAll(data.d, ReadsOf(data.d))) ELSE data

\* one side of a comparison after generate_comparison_pdf
AfterComparisonPdf(data, old_data, new_data) ==
    IF old_data.some /\ new_data.some
    THEN Dict(AfterGettingAll(data.d, ReadsOfComparison(old_data.d, new_data.d)))
    ELSE data

----------------------------------------------------------------------------
(* The run: main() analyses the file(s) of argv, displays the result, and  *)
(* the report is then exported (generate_single_analysis_pdf,              *)
(* generate_comparison_pdf), which computes the totals and the diff again. *)

\* the command-line program's variables, the GUI workers' variables
cli == <<argv, pc, call, df_clean, it, service_data, old_service_data,
         new_service_data, old_totals, new_totals, missing_services,
         added_services, printed, errors, displayed, story>>

gui == <<threads, locals>>

desk == <<app, after_queue, jobs, ui, report, history>>

top_section == <<top_totals, sorted_by_total, section>>

\* no GUI job has been started
JobIds == {1, 2}

NoJob ==
    [pc |-> "idle", kind |-> "none", old_path |-> "", new_path |-> "",
     old_data |-> None, new_data |-> None]

\* AzureAnalyzerGUI.__init__: no file selected, no result stored
InitDesk ==
    /\ app = [old_file_path        |-> "",
              new_file_path        |-> "",
              last_analysis_type   |-> "None",
              last_single_data     |-> None,
              last_comparison_data |-> [some |-> FALSE, old |-> None, new |-> None],
              results_text         |-> <<>>]
    /\ after_queue = <<>>
    /\ jobs = [j \in JobIds |-> NoJob]
    /\ ui = [pc |-> "idle", dialog |-> "none"]
    /\ report = [message |-> "", written |-> FALSE, kind |-> "None",
                 data |-> <<>>, names |-> <<>>, sources |-> <<>>]
    /\ history = [finished |-> <<>>, single_source |-> "", comparison_source |-> <<>>,
                  succeeded |-> FALSE, cleared |-> FALSE]

\* the GUI is not started
NoDesk ==
    /\ app = <<>>
    /\ after_queue = <<>>
    /\ jobs = <<>>
    /\ ui = <<>>
    /\ report = <<>>
    /\ history = <<>>

\* no top section has been rendered
NoTop ==
    /\ top_totals = <<>>
    /\ sorted_by_total = <<>>
    /\ section = "none"

\* the cells of a row under the columns the file has
Project(row, cols) == [f \in cols |-> row[f]]

\* a CSV file without column c, with one data row
FaultyFile(c) ==
    File(required_columns \ {c},
         <<Project(Row(<<"A">>, VM, <<"H">>, <<"1">>), required_columns \ {c})>>)

\* mutant: the required columns are listed whether the file has them or not
missing_columns_unfiltered(columns) == required_columns

\* line 41: the required columns the file lacks
missing_columns(columns) == required_columns \ columns

Init ==
    /\ \/ \E rows \in SeqsUpTo(SingleRows, MaxRows) :
            argv = <<File(required_columns, rows)>>
       \/ \E old \in SeqsUpTo(CmpRows, MaxCmpRows), new \in SeqsUpTo(CmpRows, MaxCmpRows) :
            argv = <<File(required_columns, old), File(required_columns, new)>>
       \/ \E c \in required_columns :
            \/ argv = <<FaultyFile(c)>>
            \/ argv = <<FaultyFile(c), FaultyFile(c)>>
            \/ \E rows \in SeqsUpTo(CmpRows, MaxCmpRows) :
                 \/ argv = <<File(required_columns, rows), FaultyFile(c)>>
                 \/ argv = <<FaultyFile(c), File(required_columns, rows)>>
    /\ pc = "analyze"
    /\ call = 1
    /\ df_clean = <<>>
    /\ it = 0
    /\ service_data = <<>>
    /\ old_service_data = None
    /\ new_service_data = None
    /\ old_totals = <<>>
    /\ new_totals = <<>>
    /\ missing_services = <<>>
    /\ added_services = <<>>
    /\ printed = ""
    /\ errors = <<>>
    /\ displayed = <<>>
    /\ story = <<>>
    /\ threads = <<>>
    /\ locals = <<>>
    /\ NoDesk
    /\ NoTop

\* main's assignment of what analyze_azure_services(argv[call]) returned,
\* and its next statement
Returned(value) ==
    /\ old_service_data' = IF call = 1 THEN value ELSE old_service_data
    /\ new_service_data' = IF call = 2 THEN value ELSE new_service_data
    /\ call' = IF call < Len(argv) THEN call + 1 ELSE call
    /\ pc' = IF call < Len(argv) THEN "analyze" ELSE "display"
    /\ df_clean' = <<>>
    /\ it' = 0
    /\ service_data' = <<>>

\* lines 40-44: a required column is missing; the error names the columns
MissingColumns ==
    /\ pc = "analyze"
    /\ missing_columns(argv[call].columns) # {}
    /\ errors' = Append(errors, missing_columns(argv[call].columns))
    /\ Returned(None)
    /\ UNCHANGED <<argv, old_totals, new_totals, missing_services, added_services,
                   printed, displayed, story>>
    /\ UNCHANGED <<gui, desk, top_section>>

\* lines 36-55: read, drop the rows without category or numeric total
ReadCsv ==
    /\ pc = "analyze"
    /\ missing_columns(argv[call].columns) = {}
    /\ df_clean' = CleanRows(argv[call].rows)
    /\ service_data' = <<>>
    /\ it' = 1
    /\ pc' = "loop"
    /\ UNCHANGED <<argv, call, old_service_data, new_service_data, old_totals,
                   new_totals, missing_services, added_services, printed,
                   errors, displayed, story>>
    /\ UNCHANGED <<gui, desk, top_section>>

\* lines 58-76: one iteration of the loop
ProcessRow ==
    /\ pc = "loop"
    /\ it <= Len(df_clean)
    /\ service_data' = AggregateRow(service_data, df_clean[it])
    /\ it' = it + 1
    /\ UNCHANGED <<argv, pc, call, df_clean, old_service_data, new_service_data,
                   old_totals, new_totals, missing_services, added_services,
                   printed, errors, displayed, story>>
    /\ UNCHANGED <<gui, desk, top_section>>

\* line 78: return dict(service_data)
Return ==
    /\ pc = "loop"
    /\ it > Len(df_clean)
    /\ Returned(Dict(service_data))
    /\ UNCHANGED <<argv, old_totals, new_totals, missing_services, added_services,
                   printed, errors, displayed, story>>
    /\ UNCHANGED <<gui, desk, top_section>>

\* main, single file: if service_data: display_service_analysis(...)
DisplaySingle ==
    /\ pc = "display"
    /\ Len(argv) = 1
    /\ Truthy(old_service_data)
    /\ displayed' = display_service_analysis(old_service_data)
    /\ old_service_data' = AfterRendering(old_service_data)
    /\ printed' = "Analysis Complete!"
    /\ pc' = "pdf"
    /\ UNCHANGED <<argv, call, df_clean, it, service_data, new_service_data,
                   old_totals, new_totals, missing_services, added_services,
                   errors, story>>
    /\ UNCHANGED <<gui, desk, top_section>>

\* main, single file: else
FailSingle ==
    /\ pc = "display"
    /\ Len(argv) = 1
    /\ ~Truthy(old_service_data)
    /\ printed' = "Failed to analyze the CSV file."
    /\ pc' = "done"
    /\ UNCHANGED <<argv, call, df_clean, it, service_data, old_service_data,
                   new_service_data, old_totals, new_totals, missing_services,
                   added_services, errors, displayed, story>>
    /\ UNCHANGED <<gui, desk, top_section>>

\* the totals and the diff that display_dual_service_comparison (478-479,
\* 563) and generate_comparison_pdf (298-299, 332) compute
TotalsAndDiff ==
    /\ old_totals' = IF Truthy(old_service_data)
                     THEN calculate_category_totals(old_service_data.d) ELSE <<>>
    /\ new_totals' = IF Truthy(new_service_data)
                     THEN calculate_category_totals(new_service_data.d) ELSE <<>>
    /\ missing_services' = compare_service_data(old_service_data, new_service_data)[1]
    /\ added_services' = compare_service_data(old_service_data, new_service_data)[2]

\* main, two files: both analysed, display_dual_service_comparison
DisplayDual ==
    /\ pc = "display"
    /\ Len(argv) = 2
    /\ old_service_data.some /\ new_service_data.some
    /\ TotalsAndDiff
    /\ displayed' = display_dual_service_comparison(old_service_data, new_service_data)
    /\ old_service_data' = AfterRendering(old_service_data)
    /\ new_service_data' = AfterRendering(new_service_data)
    /\ printed' = "COMPARISON COMPLETE!"
    /\ pc' = "pdf"
    /\ UNCHANGED <<argv, call, df_clean, it, service_data, errors, story>>
    /\ UNCHANGED <<gui, desk, top_section>>

\* main, two files: else
FailDual ==
    /\ pc = "display"
    /\ Len(argv) = 2
    /\ ~(old_service_data.some /\ new_service_data.some)
    /\ printed' = "Failed to analyze one or both CSV files."
    /\ pc' = "done"
    /\ UNCHANGED <<argv, call, df_clean, it, service_data, old_service_data,
                   new_service_data, old_totals, new_totals, missing_services,
                   added_services, errors, displayed, story>>
    /\ UNCHANGED <<gui, desk, top_section>>

\* generate_single_analysis_pdf, line 151
GenerateSinglePdf ==
    /\ pc = "pdf"
    /\ Len(argv) = 1
    /\ old_totals' = calculate_category_totals(old_service_data.d)
    /\ story' = generate_single_analysis_pdf(old_service_data)
    /\ old_service_data' = AfterRendering(old_service_data)
    /\ pc' = "done"
    /\ UNCHANGED <<argv, call, df_clean, it, service_data, new_service_data,
                   new_totals, missing_services, added_services, printed,
                   errors, displayed>>
    /\ UNCHANGED <<gui, desk, top_section>>

\* generate_comparison_pdf, lines 298-299, 332 and 357-392
GenerateComparisonPdf ==
    /\ pc = "pdf"
    /\ Len(argv) = 2
    /\ TotalsAndDiff
    /\ story' = generate_comparison_pdf(old_service_data, new_service_data)
    /\ old_service_data' =
           AfterComparisonPdf(old_service_data, old_service_data, new_service_data)
    /\ new_service_data' =
           AfterComparisonPdf(new_service_data, old_service_data, new_service_data)
    /\ pc' = "done"
    /\ UNCHANGED <<argv, call, df_clean, it, service_data, printed, errors, displayed>>
    /\ UNCHANGED <<gui, desk, top_section>>

Next ==
    \/ MissingColumns
    \/ ReadCsv
    \/ ProcessRow
    \/ Return
    \/ DisplaySingle
    \/ FailSingle
    \/ DisplayDual
    \/ FailDual
    \/ GenerateSinglePdf
    \/ GenerateComparisonPdf

Spec == Init /\ [][Next]_vars

----------------------------------------------------------------------------
(* GUI: analyses in flight.  analyze_single and analyze_comparison each    *)
(* start a daemon thread that calls self.analyze_azure_services on the     *)
(* file selected at that moment; nothing keeps a second thread from being  *)
(* started while the first one runs.                                       *)

\* longest CSV file (in rows) a worker thread analyses
MaxWorkerRows == 2

\* the worker threads of the model
ThreadIds == {1, 2}

\* mutant: one frame for all invocations, as if the locals were attributes
\* of the GUI object
Frame_shared(t) == 1

\* the frame of the invocation running in thread t: df_clean, service_data
\* and the position of iterrows() are locals of analyze_azure_services,
\* created by the call
Frame(t) == t

\* the files a thread may be started on
WorkerFiles ==
    {File(required_columns, rows) : rows \in SeqsUpTo(CmpRows, MaxWorkerRows)}
        \cup {FaultyFile("total")}

NoFile == File({}, <<>>)

NewFrame == [df_clean |-> <<>>, it |-> 0, service_data |-> <<>>]

InitWorkers ==
    /\ argv = <<>>
    /\ pc = "mainloop"
    /\ call = 1
    /\ df_clean = <<>>
    /\ it = 0
    /\ service_data = <<>>
    /\ old_service_data = None
    /\ new_service_data = None
    /\ old_totals = <<>>
    /\ new_totals = <<>>
    /\ missing_services = <<>>
    /\ added_services = <<>>
    /\ printed = ""
    /\ errors = <<>>
    /\ displayed = <<>>
    /\ story = <<>>
    /\ threads = [t \in ThreadIds |->
                     [pc |-> "idle", file |-> NoFile, result |-> None, error_msg |-> {}]]
    /\ locals = [f \in ThreadIds |-> NewFrame]
    /\ NoDesk
    /\ NoTop

\* threading.Thread(target=run_analysis, daemon=True).start() (line 189);
\* the thread reads the selected path when it runs (line 167)
StartWorker(t) ==
    /\ threads[t].pc = "idle"
    /\ \E file \in WorkerFiles :
           threads' = [threads EXCEPT ![t].pc = "start", ![t].file = file]
    /\ UNCHANGED locals
    /\ UNCHANGED <<cli, desk, top_section>>

\* lines 284-286: return None, "Missing required columns: ..."
WorkerMissingColumns(t) ==
    /\ threads[t].pc = "start"
    /\ missing_columns(threads[t].file.columns) # {}
    /\ threads' = [threads EXCEPT ![t].pc = "returned",
                                  ![t].result = None,
                                  ![t].error_msg = missing_columns(threads[t].file.columns)]
    /\ UNCHANGED locals
    /\ UNCHANGED <<cli, desk, top_section>>

\* lines 280-296: read, drop the rows without category or numeric total
WorkerReadCsv(t) ==
    /\ threads[t].pc = "start"
    /\ missing_columns(threads[t].file.columns) = {}
    /\ locals' = [locals EXCEPT ![Frame(t)] =
                     [df_clean |-> CleanRows(threads[t].file.rows),
                      it |-> 1,
                      service_data |-> <<>>]]
    /\ threads' = [threads EXCEPT ![t].pc = "loop"]
    /\ UNCHANGED <<cli, desk, top_section>>

\* lines 299-317: one iteration of the loop
WorkerProcessRow(t) ==
    /\ threads[t].pc = "loop"
    /\ locals[Frame(t)].it <= Len(locals[Frame(t)].df_clean)
    /\ locals' = [locals EXCEPT ![Frame(t)] =
                     [df_clean |-> @.df_clean,
                      it |-> @.it + 1,
                      service_data |-> AggregateRow(@.service_data, @.df_clean[@.it])]]
    /\ UNCHANGED threads
    /\ UNCHANGED <<cli, desk, top_section>>

\* line 319: return dict(service_data), None
WorkerReturn(t) ==
    /\ threads[t].pc = "loop"
    /\ locals[Frame(t)].it > Len(locals[Frame(t)].df_clean)
    /\ threads' = [threads EXCEPT ![t].pc = "returned",
                                  ![t].result = Dict(locals[Frame(t)].service_data)]
    /\ UNCHANGED locals
    /\ UNCHANGED <<cli, desk, top_section>>

NextWorkers ==
    \E t \in ThreadIds :
        \/ StartWorker(t)
        \/ WorkerMissingColumns(t)
        \/ WorkerReadCsv(t)
        \/ WorkerProcessRow(t)
        \/ WorkerReturn(t)

SpecWorkers == InitWorkers /\ [][NextWorkers]_vars

----------------------------------------------------------------------------
(* The top-categories section of the reports: display_service_analysis     *)
(* (lines 678-681), generate_single_analysis_pdf (184-190), the two sides  *)
(* of display_dual_service_comparison (591-592) and the GUI's              *)
(* format_single_analysis (416-418), applied to dicts of category totals   *)

\* the largest number of categories of a dict of totals
MaxCategories == 6

\* the number of entries the section lists: the 5 of [:5]
TopCount == 5

CategoryNames == <<<<"A">>, <<"B">>, <<"C">>, <<"G">>, <<"H">>, <<"M">>, <<"N">>>>

\* the totals the categories of the section's inputs take
TotalValues == {0, 1, 2}

\* the main program is not run, no worker thread is started
NoCli ==
    /\ argv = <<>>
    /\ pc = "mainloop"
    /\ call = 1
    /\ df_clean = <<>>
    /\ it = 0
    /\ service_data = <<>>
    /\ old_service_data = None
    /\ new_service_data = None
    /\ old_totals = <<>>
    /\ new_totals = <<>>
    /\ missing_services = <<>>
    /\ added_services = <<>>
    /\ printed = ""
    /\ errors = <<>>
    /\ displayed = <<>>
    /\ story = <<>>
    /\ threads = <<>>
    /\ locals = <<>>

\* mutant: reverse=True is missing, the items are sorted ascending
RECURSIVE InsertByTotal_ascending(_, _)
InsertByTotal_ascending(sorted_items, item) ==
    IF sorted_items = <<>> THEN <<item>>
    ELSE IF Head(sorted_items).val <= item.val
         THEN <<Head(sorted_items)>> \o InsertByTotal_ascending(Tail(sorted_items), item)
         ELSE <<item>> \o sorted_items

\* sorted(items, key=lambda x: x[1], reverse=True) is stable: an item goes
\* behind the items whose total is greater than or equal to its own
RECURSIVE InsertByTotal(_, _)
InsertByTotal(sorted_items, item) ==
    IF sorted_items = <<>> THEN <<item>>
    ELSE IF Head(sorted_items).val >= item.val
         THEN <<Head(sorted_items)>> \o InsertByTotal(Tail(sorted_items), item)
         ELSE <<item>> \o sorted_items

RECURSIVE SortedByTotal(_, _)
SortedByTotal(sorted_items, items) ==
    IF items = <<>> THEN sorted_items
    ELSE SortedByTotal(InsertByTotal(sorted_items, Head(items)), Tail(items))

\* xs[:n]
Slice(xs, n) == SubSeq(xs, 1, IF Len(xs) < n THEN Len(xs) ELSE n)

\* sorted(category_totals.items(), key=lambda x: x[1], reverse=True)[:5]
TopCategories(totals) == Slice(SortedByTotal(<<>>, totals), TopCount)

\* ... [:5] if old_totals else []
TopCategoriesOfSide(totals) == IF totals # <<>> THEN TopCategories(totals) ELSE <<>>

InitTop ==
    /\ NoCli
    /\ NoDesk
    /\ \E n \in 0..MaxCategories :
           \E totals \in [1..n -> TotalValues] :
               \E backwards \in BOOLEAN :
                   LET dict == [i \in 1..n |-> [key |-> CategoryNames[i], val |-> totals[i]]]
                   IN  top_totals = IF backwards THEN Reversed(dict) ELSE dict
    /\ sorted_by_total = <<>>
    /\ section = "none"

\* display_service_analysis, lines 678-681
TopOfDisplay ==
    /\ section = "none"
    /\ top_totals # <<>>
    /\ sorted_by_total' = Slice(SortedByTotal(<<>>, top_totals), TopCount)
    /\ section' = "display_service_analysis"
    /\ UNCHANGED <<cli, gui, desk, top_totals>>

\* generate_single_analysis_pdf, lines 184-190
TopOfSinglePdf ==
    /\ section = "none"
    /\ sorted_by_total' = TopCategories(top_totals)
    /\ section' = "generate_single_analysis_pdf"
    /\ UNCHANGED <<cli, gui, desk, top_totals>>

\* format_single_analysis, lines 416-418
TopOfFormat ==
    /\ section = "none"
    /\ sorted_by_total' = Slice(SortedByTotal(<<>>, top_totals), TopCount)
    /\ section' = "format_single_analysis"
    /\ UNCHANGED <<cli, gui, desk, top_totals>>

\* display_dual_service_comparison, lines 591-592: one side
TopOfSide ==
    /\ section = "none"
    /\ sorted_by_total' = TopCategoriesOfSide(top_totals)
    /\ section' = "display_dual_service_comparison"
    /\ UNCHANGED <<cli, gui, desk, top_totals>>

NextTop ==
    \/ TopOfDisplay
    \/ TopOfSinglePdf
    \/ TopOfFormat
    \/ TopOfSide

SpecTop == InitTop /\ [][NextTop]_vars

----------------------------------------------------------------------------
(* The GUI: the UI thread (buttons, the callbacks queued with              *)
(* root.after(0, ...), generate_pdf and its file dialog) and the threads   *)
(* analyze_single and analyze_comparison start.  A thread step is one      *)
(* access of the object's fields; the UI thread runs one callback at a     *)
(* time, in the order they were queued.                                    *)

\* the CSV files the user selects as first and as second file
OldFileNames == {"a.csv", "faulty.csv"}

NewFileNames == {"b.csv", "faulty.csv"}

Content(name) ==
    CASE name = "a.csv" -> File(required_columns, <<Row(<<"A">>, VM, <<"H">>, <<"1">>)>>)
      [] name = "b.csv" -> File(required_columns, <<Row(<<"B">>, NaN, <<"H">>, <<"5">>)>>)
      [] name = "faulty.csv" -> FaultyFile("total")

\* self.root.after(0, fn): fn goes behind the callbacks already queued.
\* show_progress, hide_progress and messagebox.showerror touch the progress
\* bar and the screen only: the queue holds the callbacks that read or
\* write a field of the object
After(queue, fns) ==
    queue \o SelectSeq(fns, LAMBDA c : c.fn \notin {"show_progress", "hide_progress", "showerror"})

Callback(fn, job) == [fn |-> fn, job |-> job]

NoPair == [some |-> FALSE, old |-> None, new |-> None]

InitGui ==
    /\ NoCli
    /\ NoTop
    /\ InitDesk

\* select_old_file, select_new_file: the dialog returned a file name
SelectOldFile ==
    /\ ui = [pc |-> "idle", dialog |-> "none"]
    /\ \E filename \in OldFileNames : app' = [app EXCEPT !.old_file_path = filename]
    /\ UNCHANGED <<after_queue, jobs, ui, report, history>>
    /\ UNCHANGED <<cli, gui, top_section>>

SelectNewFile ==
    /\ ui = [pc |-> "idle", dialog |-> "none"]
    /\ \E filename \in NewFileNames : app' = [app EXCEPT !.new_file_path = filename]
    /\ UNCHANGED <<after_queue, jobs, ui, report, history>>
    /\ UNCHANGED <<cli, gui, top_section>>

\* the thread the next analysis runs in
FreeJob == CHOOSE j \in JobIds : jobs[j].pc = "idle" /\ \A i \in JobIds : i < j => jobs[i].pc # "idle"

\* analyze_single, lines 155-157 and 189
ClickAnalyzeSingle ==
    /\ ui = [pc |-> "idle", dialog |-> "none"]
    /\ app.old_file_path # ""
    /\ \E j \in JobIds : jobs[j].pc = "idle"
    /\ jobs' = [jobs EXCEPT ![FreeJob] = [NoJob EXCEPT !.pc = "begin", !.kind = "single"]]
    /\ history' = [history EXCEPT !.cleared = FALSE]
    /\ UNCHANGED <<app, after_queue, ui, report>>
    /\ UNCHANGED <<cli, gui, top_section>>

\* analyze_comparison, lines 193-195 and 236
ClickAnalyzeComparison ==
    /\ ui = [pc |-> "idle", dialog |-> "none"]
    /\ app.old_file_path # "" /\ app.new_file_path # ""
    /\ \E j \in JobIds : jobs[j].pc = "idle"
    /\ jobs' = [jobs EXCEPT ![FreeJob] = [NoJob EXCEPT !.pc = "begin", !.kind = "comparison"]]
    /\ history' = [history EXCEPT !.cleared = FALSE]
    /\ UNCHANGED <<app, after_queue, ui, report>>
    /\ UNCHANGED <<cli, gui, top_section>>

\* run_analysis 163-165, run_comparison 201-203
JobBegin(j) ==
    /\ jobs[j].pc = "begin"
    /\ after_queue' = After(after_queue, <<Callback("show_progress", j),
                                           Callback("clear_results", j),
                                           Callback("insert_progress", j)>>)
    /\ jobs' = [jobs EXCEPT ![j].pc = IF jobs[j].kind = "single" THEN "analyze"
                                                                  ELSE "analyze_old"]
    /\ UNCHANGED <<app, ui, report, history>>
    /\ UNCHANGED <<cli, gui, top_section>>

\* where a thread goes once it holds its results
Outcome(kind, old_data, new_data) ==
    IF kind = "single"
    THEN (IF Truthy(old_data) THEN "set_type" ELSE "fail")
    ELSE (IF old_data.some /\ new_data.some THEN "set_type" ELSE "fail")

\* run_analysis 167-169: the path is read when the thread gets there
JobAnalyze(j) ==
    /\ jobs[j].pc = "analyze"
    /\ LET service_data_j == analyze_azure_services(Content(app.old_file_path))
       IN  jobs' = [jobs EXCEPT ![j].old_path = app.old_file_path,
                                ![j].old_data = service_data_j,
                                ![j].pc = Outcome("single", service_data_j, None)]
    /\ UNCHANGED <<app, after_queue, ui, report, history>>
    /\ UNCHANGED <<cli, gui, top_section>>

\* run_comparison 205
JobAnalyzeOld(j) ==
    /\ jobs[j].pc = "analyze_old"
    /\ jobs' = [jobs EXCEPT ![j].old_path = app.old_file_path,
                            ![j].old_data = analyze_azure_services(Content(app.old_file_path)),
                            ![j].pc = "analyze_new"]
    /\ UNCHANGED <<app, after_queue, ui, report, history>>
    /\ UNCHANGED <<cli, gui, top_section>>

\* run_comparison 206-208
JobAnalyzeNew(j) ==
    /\ jobs[j].pc = "analyze_new"
    /\ LET new_data_j == analyze_azure_services(Content(app.new_file_path))
       IN  jobs' = [jobs EXCEPT ![j].new_path = app.new_file_path,
                                ![j].new_data = new_data_j,
                                ![j].pc = Outcome("comparison", jobs[j].old_data, new_data_j)]
    /\ UNCHANGED <<app, after_queue, ui, report, history>>
    /\ UNCHANGED <<cli, gui, top_section>>

\* line 171, line 210: self.last_analysis_type = ...
JobSetType(j) ==
    /\ jobs[j].pc = "set_type"
    /\ app' = [app EXCEPT !.last_analysis_type = jobs[j].kind]
    /\ jobs' = [jobs EXCEPT ![j].pc = "set_data"]
    /\ history' = [history EXCEPT !.succeeded = TRUE]
    /\ UNCHANGED <<after_queue, ui, report>>
    /\ UNCHANGED <<cli, gui, top_section>>

\* line 172, line 211: self.last_single_data / self.last_comparison_data = ...
JobSetData(j) ==
    /\ jobs[j].pc = "set_data"
    /\ IF jobs[j].kind = "single"
       THEN /\ app' = [app EXCEPT !.last_single_data = jobs[j].old_data]
            /\ history' = [history EXCEPT !.single_source = jobs[j].old_path]
       ELSE /\ app' = [app EXCEPT !.last_comparison_data =
                           [some |-> TRUE, old |-> jobs[j].old_data, new |-> jobs[j].new_data]]
            /\ history' = [history EXCEPT
                               !.comparison_source = <<jobs[j].old_path, jobs[j].new_path>>]
    /\ jobs' = [jobs EXCEPT ![j].pc = "format"]
    /\ UNCHANGED <<after_queue, ui, report>>
    /\ UNCHANGED <<cli, gui, top_section>>

\* lines 174-176 and 187, 213-217 and 234: format, queue the text, finish
JobFormat(j) ==
    /\ jobs[j].pc = "format"
    /\ after_queue' = After(after_queue, <<Callback("delete", j),
                                           Callback("insert_result", j),
                                           Callback("hide_progress", j)>>)
    /\ jobs' = [jobs EXCEPT ![j].pc = "done"]
    /\ history' = [history EXCEPT !.finished = Append(@, [job |-> j, ok |-> TRUE])]
    /\ UNCHANGED <<app, ui, report>>
    /\ UNCHANGED <<cli, gui, top_section>>

\* line 178, line 219: self.last_analysis_type = None
JobFail(j) ==
    /\ jobs[j].pc = "fail"
    /\ app' = [app EXCEPT !.last_analysis_type = "None"]
    /\ jobs' = [jobs EXCEPT ![j].pc = "report_failure"]
    /\ UNCHANGED <<after_queue, ui, report, history>>
    /\ UNCHANGED <<cli, gui, top_section>>

\* lines 179-181 and 187, 220-228 and 234: queue the error, finish
JobReportFailure(j) ==
    /\ jobs[j].pc = "report_failure"
    /\ after_queue' = After(after_queue, <<Callback("insert_error", j),
                                           Callback("showerror", j),
                                           Callback("hide_progress", j)>>)
    /\ jobs' = [jobs EXCEPT ![j].pc = "done"]
    /\ history' = [history EXCEPT !.finished = Append(@, [job |-> j, ok |-> FALSE])]
    /\ UNCHANGED <<app, ui, report>>
    /\ UNCHANGED <<cli, gui, top_section>>

\* clear_results, lines 140-141: the text is deleted, the type is reset
ClearBegin(state) ==
    [state EXCEPT !.results_text = <<>>, !.last_analysis_type = "None"]

\* the Clear Results button
ClickClear ==
    /\ ui = [pc |-> "idle", dialog |-> "none"]
    /\ app' = ClearBegin(app)
    /\ ui' = [ui EXCEPT !.pc = "clear_single"]
    /\ history' = [history EXCEPT !.succeeded = FALSE, !.cleared = TRUE]
    /\ UNCHANGED <<after_queue, jobs, report>>
    /\ UNCHANGED <<cli, gui, top_section>>

\* clear_results, line 142
ClearSingle ==
    /\ ui.pc = "clear_single"
    /\ app' = [app EXCEPT !.last_single_data = None]
    /\ ui' = [ui EXCEPT !.pc = "clear_comparison"]
    /\ UNCHANGED <<after_queue, jobs, report, history>>
    /\ UNCHANGED <<cli, gui, top_section>>

\* clear_results, line 143
ClearComparison ==
    /\ ui.pc = "clear_comparison"
    /\ app' = [app EXCEPT !.last_comparison_data = NoPair]
    /\ ui' = [ui EXCEPT !.pc = "idle"]
    /\ UNCHANGED <<after_queue, jobs, report, history>>
    /\ UNCHANGED <<cli, gui, top_section>>

\* the event loop runs the callback at the head of the queue (also while
\* a dialog of generate_pdf is open: the dialog runs the event loop)
RunCallback ==
    /\ ui.pc = "idle"
    /\ after_queue # <<>>
    /\ after_queue' = Tail(after_queue)
    /\ LET callback == Head(after_queue)
       IN  CASE callback.fn = "clear_results" ->
                    /\ app' = ClearBegin(app)
                    /\ ui' = [ui EXCEPT !.pc = "clear_single"]
                    /\ history' = [history EXCEPT !.succeeded = FALSE]
             [] callback.fn = "delete" ->
                    /\ app' = [app EXCEPT !.results_text = <<>>]
                    /\ UNCHANGED <<ui, history>>
             [] callback.fn \in {"insert_progress", "insert_result", "insert_error"} ->
                    /\ app' = [app EXCEPT !.results_text = Append(@, callback.fn)]
                    /\ UNCHANGED <<ui, history>>
    /\ UNCHANGED <<jobs, report>>
    /\ UNCHANGED <<cli, gui, top_section>>

NoReport(message) ==
    [message |-> message, written |-> FALSE, kind |-> "None",
     data |-> <<>>, names |-> <<>>, sources |-> <<>>]

\* generate_pdf, lines 240-248: refuse, or open the save dialog
ClickPdf ==
    /\ ui = [pc |-> "idle", dialog |-> "none"]
    /\ IF app.last_analysis_type = "None"
       THEN /\ report' = NoReport("Please run an analysis first.")
            /\ ui' = [ui EXCEPT !.dialog = "message"]
       ELSE /\ ui' = [ui EXCEPT !.dialog = "save"]
            /\ UNCHANGED report
    /\ UNCHANGED <<app, after_queue, jobs, history>>
    /\ UNCHANGED <<cli, gui, top_section>>

\* generate_pdf, lines 250-251: the dialog was cancelled
PdfCancel ==
    /\ ui = [pc |-> "idle", dialog |-> "save"]
    /\ ui' = [ui EXCEPT !.dialog = "none"]
    /\ UNCHANGED <<app, after_queue, jobs, report, history>>
    /\ UNCHANGED <<cli, gui, top_section>>

\* generate_pdf, lines 253-266, as a function of the fields it reads
WrittenReport(state, sources) ==
    CASE state.last_analysis_type = "single" ->
             IF generate_single_analysis_pdf(state.last_single_data).raised
             THEN NoReport("PDF Generation Error")
             ELSE [message |-> "Success", written |-> TRUE, kind |-> "single",
                   data    |-> <<state.last_single_data>>,
                   names   |-> <<state.old_file_path>>,
                   sources |-> <<sources.single_source>>]
      [] state.last_analysis_type = "comparison" ->
             IF \/ ~state.last_comparison_data.some
                \/ generate_comparison_pdf(state.last_comparison_data.old,
                                           state.last_comparison_data.new).raised
             THEN NoReport("PDF Generation Error")
             ELSE [message |-> "Success", written |-> TRUE, kind |-> "comparison",
                   data    |-> <<state.last_comparison_data.old,
                                 state.last_comparison_data.new>>,
                   names   |-> <<state.old_file_path, state.new_file_path>>,
                   sources |-> sources.comparison_source]
      [] state.last_analysis_type = "None" -> NoReport("Success")

\* generate_pdf, lines 253-266: a path was chosen
PdfWrite ==
    /\ ui = [pc |-> "idle", dialog |-> "save"]
    /\ report' = WrittenReport(app, history)
    /\ ui' = [ui EXCEPT !.dialog = "message"]
    /\ UNCHANGED <<app, after_queue, jobs, history>>
    /\ UNCHANGED <<cli, gui, top_section>>

\* the message box of generate_pdf (lines 241, 261, 264) is closed
DismissMessage ==
    /\ ui = [pc |-> "idle", dialog |-> "message"]
    /\ ui' = [ui EXCEPT !.dialog = "none"]
    /\ report' = NoReport("")
    /\ UNCHANGED <<app, after_queue, jobs, history>>
    /\ UNCHANGED <<cli, gui, top_section>>

NextGui ==
    \/ SelectOldFile
    \/ SelectNewFile
    \/ ClickAnalyzeSingle
    \/ ClickAnalyzeComparison
    \/ ClickClear
    \/ ClearSingle
    \/ ClearComparison
    \/ RunCallback
    \/ ClickPdf
    \/ PdfCancel
    \/ PdfWrite
    \/ DismissMessage
    \/ \E j \in JobIds :
           \/ JobBegin(j)
           \/ JobAnalyze(j)
           \/ JobAnalyzeOld(j)
           \/ JobAnalyzeNew(j)
           \/ JobSetType(j)
           \/ JobSetData(j)
           \/ JobFormat(j)
           \/ JobFail(j)
           \/ JobReportFailure(j)

SpecGui == InitGui /\ [][NextGui]_vars

----------------------------------------------------------------------------
(* Vocabulary of the properties *)

Range(seq) == {seq[i] : i \in 1..Len(seq)}

\* a dict holds each key once
UniqueKeys(d) == \A i, j \in 1..Len(d) : d[i].key = d[j].key => i = j

\* the rows of a file that survive: category present, amount a number
SurvivingRows(rows) ==
    SelectSeq(rows, LAMBDA r : r.service_category # NaN /\ ~ToNumeric(r.total).isnan)

Amount(r) == ToNumeric(r.total).v

Amounts(rows) == [i \in 1..Len(rows) |-> Amount(rows[i])]

\* the (category, subcategory, unit) a surviving row is accumulated under
Triple(r) == <<r.service_category, subcategory(r), unit(r)>>

\* the (category, subcategory, unit) keys of an aggregate
Triples(agg) ==
    UNION {UNION {{<<c.key, s.key, u.key>> : u \in Range(s.val)} : s \in Range(c.val)}
           : c \in Range(agg)}

Stored(agg, t) == Get(Get(Get(agg, t[1]), t[2]), t[3])

\* an aggregate as the mapping it is: its keys at the three levels and the
\* total of every triple, whatever the insertion order
AsMapping(agg) ==
    [categories    |-> KeySet(agg),
     subcategories |-> UNION {{<<c.key, s.key>> : s \in Range(c.val)} : c \in Range(agg)},
     totals        |-> {<<t, Stored(agg, t)>> : t \in Triples(agg)}]

KeyStructure(agg) ==
    [categories    |-> KeySet(agg),
     subcategories |-> UNION {{<<c.key, s.key>> : s \in Range(c.val)} : c \in Range(agg)},
     units         |-> Triples(agg)]

\* no addition of these amounts, in any order or grouping, can round: every
\* partial sum is an integer of magnitude at most 2^MantBits
ExactSafe(xs) == IntSum([i \in 1..Len(xs) |-> Abs(xs[i])]) <= Pow2(MantBits)

IndexPermutations(n) == {p \in [1..n -> 1..n] : \A i, j \in 1..n : p[i] = p[j] => i = j}

Permuted(rows, p) == [i \in 1..Len(rows) |-> rows[p[i]]]

\* main holds the result of analysing argv[k]
Analysed(k) == k <= Len(argv) /\ (call > k \/ pc \in {"display", "pdf", "done"})

Result(k) == IF k = 1 THEN old_service_data ELSE new_service_data

Totals(k) == IF k = 1 THEN old_totals ELSE new_totals

\* calculate_category_totals has been applied to the result of argv[k]
TotalsComputed(k) ==
    /\ Analysed(k)
    /\ Truthy(Result(k))
    /\ \/ Len(argv) = 1 /\ pc = "done"
       \/ Len(argv) = 2 /\ pc \in {"pdf", "done"} /\ printed = "COMPARISON COMPLETE!"

\* compare_service_data(old, new) has been applied
Compared == Len(argv) = 2 /\ pc \in {"pdf", "done"} /\ printed = "COMPARISON COMPLETE!"

----------------------------------------------------------------------------
(* C1 *)

\* C1, as claimed: once the category totals of a file's aggregate are
\* computed, the sum of their values equals the sum of the amounts of the
\* file's surviving rows (both sums are float sums, taken in dict order and
\* in row order).
C1_SumOfTotalsIsSumOfAmounts ==
    \A k \in 1..Len(argv) :
        TotalsComputed(k) =>
            FloatSum(Values(Totals(k))) = FloatSum(Amounts(SurvivingRows(argv[k].rows)))

\* C1, amended: the two sums are equal, and equal to the exact sum, whenever
\* the surviving amounts are such that no float addition of them can round
\* (they are multiples of one power of two and their magnitudes add up to at
\* most 2^MantBits times it); otherwise the sums may differ by rounding,
\* because the totals add the amounts grouped by triple and by category.
C1_SumOfTotalsIsSumOfAmountsWhenExact ==
    \A k \in 1..Len(argv) :
        (TotalsComputed(k) /\ ExactSafe(Amounts(SurvivingRows(argv[k].rows)))) =>
            /\ FloatSum(Values(Totals(k))) = FloatSum(Amounts(SurvivingRows(argv[k].rows)))
            /\ FloatSum(Values(Totals(k))) = IntSum(Amounts(SurvivingRows(argv[k].rows)))

\* C1 witness: totals computed for a file with a skipped row and three
\* surviving rows in two categories, whose additions are all exact
C1_Witness ==
    /\ TotalsComputed(1)
    /\ Len(argv[1].rows) > Len(SurvivingRows(argv[1].rows))
    /\ Len(SurvivingRows(argv[1].rows)) >= 2
    /\ Len(old_totals) = 2
    /\ ExactSafe(Amounts(SurvivingRows(argv[1].rows)))
    /\ IntSum(Amounts(SurvivingRows(argv[1].rows))) > 0

----------------------------------------------------------------------------
(* C2 *)

\* the surviving rows of argv[k] that have been accumulated so far
Accumulated(k) ==
    IF Analysed(k) THEN SurvivingRows(argv[k].rows)
    ELSE SubSeq(SurvivingRows(argv[k].rows), 1, it - 1)

\* the aggregate of argv[k], finished or under construction
Aggregate(k) == IF Analysed(k) THEN Result(k).d ELSE service_data

\* the file of the usage scenario: Compute/VM/Hours 10 and 5, Storage/-/GB 3
ScenarioRows ==
    << Row(<<"C">>, VM, <<"H">>, <<"1", "0">>),
       Row(<<"C">>, VM, <<"H">>, <<"5">>),
       Row(<<"S">>, NaN, <<"G", "B">>, <<"3">>) >>

\* C2: at every point of the aggregation, and once it has returned, the
\* triples of the aggregate are exactly the triples of the surviving rows
\* accumulated so far, each key is held once at its level, and the total
\* stored for a triple is the sum, in row order, of the amounts of the
\* accumulated rows with that triple; the scenario file gives
\* Compute -> VM -> Hours = 15, Storage -> N/A -> GB = 3 and the category
\* totals Compute = 15, Storage = 3.
C2_TotalIsSumOfItsRows ==
    /\ \A k \in 1..Len(argv) :
        ((Analysed(k) /\ Result(k).some) \/ (call = k /\ pc = "loop")) =>
            LET aggregate == Aggregate(k)
                accumulated == Accumulated(k)
                triples == Triples(aggregate)
            IN  /\ triples = {Triple(r) : r \in Range(accumulated)}
                /\ UniqueKeys(aggregate)
                /\ \A c \in Range(aggregate) :
                        UniqueKeys(c.val) /\ \A s \in Range(c.val) : UniqueKeys(s.val)
                /\ \A t \in triples :
                        Stored(aggregate, t) =
                            FloatSum(Amounts(SelectSeq(accumulated, LAMBDA r : Triple(r) = t)))
    /\ (Len(argv) = 1 /\ argv[1].rows = ScenarioRows /\ pc = "done") =>
            /\ old_service_data.d =
                    << [key |-> <<"C">>,
                        val |-> <<[key |-> VM, val |-> <<[key |-> <<"H">>, val |-> 15]>>]>>],
                       [key |-> <<"S">>,
                        val |-> <<[key |-> NA, val |-> <<[key |-> <<"G", "B">>, val |-> 3]>>]>>] >>
            /\ old_totals = <<[key |-> <<"C">>, val |-> 15], [key |-> <<"S">>, val |-> 3]>>

\* C2 witness: the scenario file, analysed and totalled
C2_Witness ==
    /\ Len(argv) = 1 /\ argv[1].rows = ScenarioRows /\ pc = "done"
    /\ Stored(old_service_data.d, <<<<"C">>, VM, <<"H">>>>) = 15

----------------------------------------------------------------------------
(* C3 *)

\* the same file with its rows in the order p
PermutedFile(file, p) == File(file.columns, Permuted(file.rows, p))

\* analyze_azure_services(argv[k]) has just returned to main
JustReturned(k) ==
    /\ k <= Len(argv)
    /\ \/ call = k /\ pc = "display"
       \/ call = k + 1 /\ pc = "analyze"

\* C3, as claimed: the aggregate of a file equals, as a mapping, the
\* aggregate of every permutation of its rows, and analysing the same file
\* twice gives equal aggregates.
C3_OrderIndependent ==
    /\ \A k \in 1..Len(argv) :
        (JustReturned(k) /\ Result(k).some) =>
            LET mine == AsMapping(Result(k).d)
            IN  \A p \in IndexPermutations(Len(argv[k].rows)) :
                    AsMapping(analyze_azure_services(PermutedFile(argv[k], p)).d) = mine
    /\ (Analysed(2) /\ argv[1] = argv[2]) => old_service_data = new_service_data

\* C3, amended: every permutation of the rows gives the same keys at the
\* three levels, and the same total for every triple whenever no addition
\* of the surviving amounts can round; analysing the same file twice gives
\* equal aggregates.  (Float addition is not associative: in general the
\* totals of two orders differ by rounding.)
C3_OrderIndependentKeysAndExactTotals ==
    /\ \A k \in 1..Len(argv) :
        (JustReturned(k) /\ Result(k).some) =>
            LET mine  == AsMapping(Result(k).d)
                keys  == KeyStructure(Result(k).d)
                exact == ExactSafe(Amounts(SurvivingRows(argv[k].rows)))
            IN  \A p \in IndexPermutations(Len(argv[k].rows)) :
                    LET other == analyze_azure_services(PermutedFile(argv[k], p)).d
                    IN  /\ KeyStructure(other) = keys
                        /\ exact => AsMapping(other) = mine
    /\ (Analysed(2) /\ argv[1] = argv[2]) => old_service_data = new_service_data

\* C3 witness: a file of three surviving rows, two of them of one triple with
\* different amounts and one of another category, all additions exact
C3_Witness ==
    /\ JustReturned(1) /\ old_service_data.some
    /\ Len(SurvivingRows(argv[1].rows)) = 3
    /\ Cardinality(Triples(old_service_data.d)) = 2
    /\ Len(old_service_data.d) = 2
    /\ Cardinality(Range(Amounts(SurvivingRows(argv[1].rows)))) = 3
    /\ ExactSafe(Amounts(SurvivingRows(argv[1].rows)))

----------------------------------------------------------------------------
(* C4, C5, C6 *)

\* ascending in the order of str, no element twice
StrictlyAscending(xs) == \A i, j \in 1..Len(xs) : i < j => StrLess(xs[i], xs[j])

\* C4: once compare_service_data(old, new) has returned, missing holds
\* exactly the category keys of old that new lacks and added exactly the
\* keys of new that old lacks, each strictly ascending, and the two share no
\* element; old keys {A, B} and new keys {B, C} give missing = [A],
\* added = [C].
C4_DiffIsSortedSetDifference ==
    Compared =>
        /\ Range(missing_services) = KeySet(old_service_data.d) \ KeySet(new_service_data.d)
        /\ Range(added_services) = KeySet(new_service_data.d) \ KeySet(old_service_data.d)
        /\ StrictlyAscending(missing_services)
        /\ StrictlyAscending(added_services)
        /\ Range(missing_services) \cap Range(added_services) = {}
        /\ (/\ KeySet(old_service_data.d) = {<<"A">>, <<"B">>}
            /\ KeySet(new_service_data.d) = {<<"B">>, <<"C">>}) =>
                missing_services = <<<<"A">>>> /\ added_services = <<<<"C">>>>

\* C4 witness: the comparison of a file with categories A, B against one
\* with categories B, C
C4_Witness ==
    /\ Compared
    /\ KeySet(old_service_data.d) = {<<"A">>, <<"B">>}
    /\ KeySet(new_service_data.d) = {<<"B">>, <<"C">>}
    /\ missing_services = <<<<"A">>>>
    /\ added_services = <<<<"C">>>>

\* C5: the missing of compare_service_data(old, new) is the added of
\* compare_service_data(new, old), and its added is the other's missing.
C5_DiffSymmetry ==
    Compared =>
        /\ missing_services = compare_service_data(new_service_data, old_service_data)[2]
        /\ added_services = compare_service_data(new_service_data, old_service_data)[1]

\* C5 witness: a comparison where each side has a category of its own and
\* one is shared
C5_Witness ==
    /\ Compared
    /\ missing_services # <<>>
    /\ added_services # <<>>
    /\ missing_services # added_services
    /\ KeySet(old_service_data.d) \cap KeySet(new_service_data.d) # {}

\* C6: comparing an aggregate with itself gives an empty missing and an
\* empty added: for the two sides of a comparison of a file with itself,
\* and for each analysed aggregate passed as both arguments.
C6_DiffIdentity ==
    /\ (Compared /\ old_service_data = new_service_data) =>
            missing_services = <<>> /\ added_services = <<>>
    /\ \A k \in 1..Len(argv) :
            Analysed(k) => compare_service_data(Result(k), Result(k)) = << <<>>, <<>> >>

\* C6 witness: a file of two categories compared with itself
C6_Witness ==
    /\ Compared
    /\ argv[1] = argv[2]
    /\ old_service_data = new_service_data
    /\ Len(old_service_data.d) = 2

----------------------------------------------------------------------------
(* C7, C8 *)

IsBlank(x) == x = NaN \/ Strip(x) = <<>>

\* C7, as claimed: a row whose category is missing or blank creates no
\* category key and adds to no total: the aggregate of a file is the
\* aggregate of the file without those rows.
C7_BlankCategorySkipped ==
    \A k \in 1..Len(argv) :
        (Analysed(k) /\ Result(k).some) =>
            /\ \A c \in KeySet(Result(k).d) : ~IsBlank(c)
            /\ Result(k) =
                analyze_azure_services(
                    File(argv[k].columns,
                         SelectSeq(argv[k].rows, LAMBDA r : ~IsBlank(r.service_category))))

\* the amount of a row is a number
HasAmount(r) == ~ToNumeric(r.total).isnan

\* C8: a row whose amount is not a number is skipped: a file with all its
\* columns is analysed to an aggregate (not None), the aggregate of the
\* file without those rows, and no triple is created that only such rows
\* have.
C8_UnparseableAmountSkipped ==
    \A k \in 1..Len(argv) :
        (Analysed(k) /\ required_columns \subseteq argv[k].columns) =>
            /\ Result(k).some
            /\ Result(k) =
                analyze_azure_services(File(argv[k].columns, SelectSeq(argv[k].rows, HasAmount)))
            /\ \A r \in Range(argv[k].rows) :
                    (~HasAmount(r) /\ Triple(r) \in Triples(Result(k).d)) =>
                        \E q \in Range(argv[k].rows) : HasAmount(q) /\ Triple(q) = Triple(r)

\* C8 witness: a file whose first row has an unparseable amount and whose
\* later rows were aggregated
C8_Witness ==
    /\ Analysed(1)
    /\ Len(argv[1].rows) = 3
    /\ argv[1].rows[1].service_category # NaN
    /\ argv[1].rows[1].total = <<"x">>
    /\ Len(old_service_data.d) = 2

----------------------------------------------------------------------------
(* C9 *)

\* C9, as claimed: the subcategory and unit keys are "N/A" for a missing,
\* blank or not-a-number cell and the trimmed cell otherwise, and so no
\* subcategory or unit key of an aggregate is empty, padded with whitespace
\* or the not-a-number marker.
C9_NoBlankPaddedOrNanKey ==
    \A k \in 1..Len(argv) :
        (Analysed(k) /\ Result(k).some) =>
            \A t \in Triples(Result(k).d) :
                /\ t[2] # <<>> /\ Strip(t[2]) = t[2] /\ t[2] # nan
                /\ t[3] # <<>> /\ Strip(t[3]) = t[3] /\ t[3] # nan

----------------------------------------------------------------------------
(* C10 *)

\* the unit totals of category c of an aggregate, as a set of
\* <<subcategory, unit, total>>
UnitTotalSet(agg, c) ==
    {<<t[2], t[3], Stored(agg, t)>> : t \in {x \in Triples(agg) : x[1] = c}}

RECURSIVE SetSum(_)
SetSum(S) ==
    IF S = {} THEN 0
    ELSE LET x == CHOOSE y \in S : TRUE IN x[3] + SetSum(S \ {x})

\* C10: every time calculate_category_totals has been applied to an
\* aggregate (by the display and again by the export), its result has
\* exactly the category keys of the aggregate, each once, and the value of a
\* category is the sum of the unit totals of all its subcategories, added in
\* the order the aggregate holds them (and is their exact sum when no
\* addition can round).
C10_CategoryTotals ==
    \A k \in 1..Len(argv) :
        TotalsComputed(k) =>
            /\ KeySet(Totals(k)) = KeySet(Result(k).d)
            /\ UniqueKeys(Totals(k))
            /\ \A c \in KeySet(Result(k).d) :
                /\ Get(Totals(k), c) = FloatSum(UnitTotals(Get(Result(k).d, c)))
                /\ ExactSafe(UnitTotals(Get(Result(k).d, c))) =>
                        Get(Totals(k), c) = SetSum(UnitTotalSet(Result(k).d, c))

\* C10 witness: totals computed for an aggregate of two categories, one of
\* them with two subcategories, whose total is the sum over both
C10_Witness ==
    /\ TotalsComputed(1)
    /\ Len(old_totals) = 2
    /\ \E c \in Range(old_service_data.d) :
            Len(c.val) = 2 /\ Get(old_totals, c.key) = 11

----------------------------------------------------------------------------
(* C11 *)

\* a result with None replaced by the empty aggregate
Emptied(data) == IF data.some THEN data ELSE Dict(<<>>)

\* sorted(data.keys()), [] for None
SortedCategories(data) == IF data.some THEN Sorted(KeySet(data.d)) ELSE <<>>

\* C11: compare_service_data treats a null side exactly like an empty
\* aggregate.  For every analysed result B (None included):
\* compare(None, B) = compare({}, B) = ([], sorted keys of B),
\* compare(B, None) = compare(B, {}) = (sorted keys of B, []),
\* compare(None, None) = ([], []), and the diff of the two results of a run
\* is the diff of the two with None replaced by {}.
C11_NullIsEmpty ==
    /\ compare_service_data(None, None) = <<<<>>, <<>>>>
    /\ \A k \in 1..Len(argv) :
           Analysed(k) =>
               /\ compare_service_data(None, Result(k))
                      = compare_service_data(Dict(<<>>), Result(k))
               /\ compare_service_data(None, Result(k))
                      = <<<<>>, SortedCategories(Result(k))>>
               /\ compare_service_data(Result(k), None)
                      = compare_service_data(Result(k), Dict(<<>>))
               /\ compare_service_data(Result(k), None)
                      = <<SortedCategories(Result(k)), <<>>>>
    /\ (Analysed(1) /\ Analysed(2)) =>
           compare_service_data(old_service_data, new_service_data)
               = compare_service_data(Emptied(old_service_data), Emptied(new_service_data))

\* both files are analysed, the old one gave None and the new one a
\* non-empty aggregate
C11_Witness ==
    /\ Analysed(1) /\ Analysed(2)
    /\ ~old_service_data.some
    /\ Truthy(new_service_data)
    /\ compare_service_data(old_service_data, new_service_data)[2] # <<>>

----------------------------------------------------------------------------
(* C12 *)

\* the three comparison renderings applied to the two results of the run
ComparisonRenderings ==
    { display_dual_service_comparison(old_service_data, new_service_data),
      generate_comparison_pdf(old_service_data, new_service_data),
      format_comparison_analysis(old_service_data, new_service_data) }

\* exactly one of the two results is None, the other holds data
OneSideNull ==
    /\ Analysed(1) /\ Analysed(2)
    /\ \/ ~old_service_data.some /\ Truthy(new_service_data)
       \/ Truthy(old_service_data) /\ ~new_service_data.some

\* C12, as claimed: when one side is None and the other is a non-empty
\* aggregate, each comparison rendering completes without raising and
\* reports every category of the non-null side as added (old side None) or
\* as missing (new side None).
C12_NullSideRendered ==
    OneSideNull =>
        \A r \in ComparisonRenderings :
            /\ ~r.raised
            /\ r.missing = SortedCategories(old_service_data)
            /\ r.added = SortedCategories(new_service_data)

----------------------------------------------------------------------------
(* C13 *)

\* the (category, subcategory, unit) of a row of the detailed comparison
RowKey(row) == <<row.category, row.subcategory, row.unit>>

\* the total an aggregate holds for a key, 0 when it does not hold the key
TotalOrZero(agg, t) == IF t \in Triples(agg) THEN Stored(agg, t) ELSE 0

\* generate_comparison_pdf has produced the detailed comparison
DetailRendered == Compared /\ pc = "done"

\* C13: in the detailed comparison of two aggregates every (category,
\* subcategory, unit) key of at least one of them has exactly one row, whose
\* old amount is the old total (0 if absent), whose new amount is the new
\* total (0 if absent) and whose change is new - old; a key whose change is
\* zero has its row too, and no row has a key absent from both.
C13_DeltaRows ==
    DetailRendered =>
        LET rows == story.rows
            keys == Triples(old_service_data.d) \cup Triples(new_service_data.d)
        IN  /\ \A t \in keys : Cardinality({i \in 1..Len(rows) : RowKey(rows[i]) = t}) = 1
            /\ \A i \in 1..Len(rows) :
                   /\ RowKey(rows[i]) \in keys
                   /\ rows[i].old_amount = TotalOrZero(old_service_data.d, RowKey(rows[i]))
                   /\ rows[i].new_amount = TotalOrZero(new_service_data.d, RowKey(rows[i]))
                   /\ rows[i].change =
                          RoundFloat(TotalOrZero(new_service_data.d, RowKey(rows[i]))
                                     - TotalOrZero(old_service_data.d, RowKey(rows[i])))

\* a detailed comparison with a row of change zero for a key of both sides,
\* a row for a key of the old side only and a row for a key of the new side
\* only
C13_Witness ==
    /\ DetailRendered
    /\ \E i, j, n \in 1..Len(story.rows) :
           /\ story.rows[i].change = 0
           /\ RowKey(story.rows[i]) \in Triples(old_service_data.d) \cap Triples(new_service_data.d)
           /\ RowKey(story.rows[j]) \notin Triples(new_service_data.d)
           /\ story.rows[j].change < 0
           /\ RowKey(story.rows[n]) \notin Triples(old_service_data.d)
           /\ story.rows[n].change > 0

----------------------------------------------------------------------------
(* C14 *)

\* the file argv[k] has its four columns and none of its rows survives
NoRowSurvives(k) ==
    /\ Analysed(k)
    /\ required_columns \subseteq argv[k].columns
    /\ SurvivingRows(argv[k].rows) = <<>>

\* C14: a file of which no row survives is aggregated to the empty mapping,
\* not to an error; calculate_category_totals of the empty mapping is the
\* empty mapping, the counts and the grand total derived from it are 0, and
\* display_service_analysis answers it with the "No data to display."
\* signal, without raising; the PDF export and the GUI format do not raise
\* on it either.
C14_NoRowsGiveEmptyAggregate ==
    \A k \in 1..Len(argv) :
        NoRowSurvives(k) =>
            /\ Result(k) = Dict(<<>>)
            /\ calculate_category_totals(Result(k).d) = <<>>
            /\ Summary(Result(k).d, calculate_category_totals(Result(k).d)) = <<0, 0, 0, 0>>
            /\ SideSummary(Result(k)) = <<0, 0, 0, 0>>
            /\ display_service_analysis(Result(k)).nodata
            /\ ~display_service_analysis(Result(k)).raised
            /\ display_service_analysis(Result(k)).lines = <<>>
            /\ ~generate_single_analysis_pdf(Result(k)).raised
            /\ ~format_single_analysis(Result(k)).raised

\* a file with rows, none of which survives, has been analysed
C14_Witness ==
    /\ Len(argv) = 1
    /\ pc = "done"
    /\ Len(argv[1].rows) = 2
    /\ NoRowSurvives(1)
    /\ display_service_analysis(old_service_data).nodata

----------------------------------------------------------------------------
(* C15 *)

\* what main() prints when analyze_azure_services returned None (line 750)
FailureMessage == "Failed to analyze the CSV file."

\* C15, as claimed: a single-file run of which no row survives (a valid
\* file: all columns present) ends with a result that differs from the
\* failure of the analysis: it does not print the failure message.
C15_EmptyIsNotFailure ==
    (Len(argv) = 1 /\ pc = "done" /\ NoRowSurvives(1)) => printed # FailureMessage

----------------------------------------------------------------------------
(* C16 *)

\* the analysed files of argv that lack a required column
FaultyAnalysed == {k \in 1..Len(argv) : Analysed(k) /\ ~(required_columns \subseteq argv[k].columns)}

\* a cell of a present column is missing in some row of the file argv[k]
HasNullCell(k) ==
    \E i \in 1..Len(argv[k].rows) :
        \E f \in argv[k].columns : argv[k].rows[i][f] = NaN

\* C16: a file that lacks a required column is answered with None and an
\* error that names exactly the columns it lacks, and no row of it is
\* normalized or aggregated (the loop never runs on it); a file that has the
\* four columns is never answered so, whatever cells of it are missing.
C16_MissingColumnsRejected ==
    /\ \A k \in 1..Len(argv) :
           Analysed(k) =>
               IF required_columns \subseteq argv[k].columns
               THEN Result(k).some
               ELSE /\ Result(k) = None
                    /\ \E e \in 1..Len(errors) : errors[e] = required_columns \ argv[k].columns
    /\ Len(errors) = Cardinality(FaultyAnalysed)
    /\ pc = "loop" => required_columns \subseteq argv[call].columns
    /\ (pc = "analyze" /\ ~(required_columns \subseteq argv[call].columns)) =>
           (it = 0 /\ df_clean = <<>> /\ service_data = <<>>)

\* the first file lacks a column and was rejected, the second has a missing
\* cell under a present column and was aggregated
C16_Witness ==
    /\ Len(argv) = 2
    /\ pc = "done"
    /\ 1 \in FaultyAnalysed
    /\ old_service_data = None
    /\ Len(errors) = 1
    /\ required_columns \subseteq argv[2].columns
    /\ HasNullCell(2)
    /\ Truthy(new_service_data)

----------------------------------------------------------------------------
(* C17 *)

\* C17: once analyze_azure_services has returned an aggregate, no later
\* step (calculate_category_totals, compare_service_data, the display, the
\* PDF export) changes it; in particular the detailed comparison, which
\* reads on each side the keys of the other, inserts no key.
C17_AggregateNeverModified ==
    [][\A k \in 1..Len(argv) : Analysed(k) => Result(k)' = Result(k)]_vars

\* the detailed comparison has been rendered for two aggregates each of
\* which lacks a category, a subcategory and a unit the other has
C17_Witness ==
    /\ DetailRendered
    /\ KeySet(old_service_data.d) \ KeySet(new_service_data.d) # {}
    /\ KeySet(new_service_data.d) \ KeySet(old_service_data.d) # {}
    /\ \E t \in Triples(new_service_data.d) :
           /\ t \notin Triples(old_service_data.d)
           /\ Has(old_service_data.d, t[1])

----------------------------------------------------------------------------
(* C18 *)

\* the levels on which a rendering names a category
CategoryLevels == {"category", "category_new", "missing"}

\* s < t for two paths of keys of the same length, level by level
RECURSIVE PathLess(_, _)
PathLess(s, t) ==
    /\ s # <<>>
    /\ \/ StrLess(Head(s), Head(t))
       \/ Head(s) = Head(t) /\ PathLess(Tail(s), Tail(t))

\* the lines of one level as a rendering emits them, each with the category
\* (and the subcategory) it is emitted under: depth 1 the categories, depth
\* 2 the subcategories, depth 3 the units
RECURSIVE Emitted(_, _, _, _)
Emitted(lines, depth, c, sc) ==
    IF lines = <<>> THEN <<>>
    ELSE LET l == Head(lines)
         IN  IF l.level \in CategoryLevels
             THEN (IF depth = 1 THEN <<<<l.key>>>> ELSE <<>>)
                  \o Emitted(Tail(lines), depth, l.key, sc)
             ELSE IF l.level = "subcategory"
             THEN (IF depth = 2 THEN <<<<c, l.key>>>> ELSE <<>>)
                  \o Emitted(Tail(lines), depth, c, l.key)
             ELSE IF l.level = "unit"
             THEN (IF depth = 3 THEN <<<<c, sc, l.key>>>> ELSE <<>>)
                  \o Emitted(Tail(lines), depth, c, sc)
             ELSE Emitted(Tail(lines), depth, c, sc)

AscendingPaths(paths) ==
    \A i \in 1..Len(paths) - 1 : PathLess(paths[i], paths[i + 1])

\* categories ascending; subcategories ascending within their category;
\* units ascending within their subcategory
AscendingLines(lines) ==
    \A depth \in {1, 2, 3} : AscendingPaths(Emitted(lines, depth, <<>>, <<>>))

\* the rows of the detailed comparison are in ascending order of
\* (category, subcategory, unit)
AscendingRows(rows) ==
    AscendingPaths([i \in 1..Len(rows) |-> RowKey(rows[i])])

\* the headings and the unit amounts a rendering emits, in order
Emission(lines) ==
    SelectSeq(lines, LAMBDA l : l.level \in {"category", "subcategory", "unit"})

\* C18: every rendering emits the categories, the subcategories of a
\* category and the units of a subcategory in ascending lexicographic
\* order, whatever the order in which the aggregate was built: what the
\* display and the export of a run emitted is in that order, so is what the
\* GUI formats for the aggregates of the run, and two aggregates of a run
\* that are equal as mappings are emitted as the same sequence.
C18_SortedEmission ==
    /\ (Len(argv) = 1 /\ pc = "done" /\ printed = "Analysis Complete!") =>
           /\ AscendingLines(displayed.lines)
           /\ AscendingLines(story.lines)
           /\ AscendingLines(format_single_analysis(old_service_data).lines)
    /\ DetailRendered =>
           /\ AscendingLines(displayed.left)
           /\ AscendingLines(displayed.right)
           /\ AscendingRows(story.rows)
           /\ LET formatted == format_comparison_analysis(old_service_data, new_service_data)
              IN  AscendingLines(formatted.left) /\ AscendingLines(formatted.right)
           /\ AsMapping(old_service_data.d) = AsMapping(new_service_data.d) =>
                  /\ Emission(displayed.left) = Emission(displayed.right)
                  /\ \A f \in {1, 2, 3} :
                         LET Render(data) ==
                                 CASE f = 1 -> display_service_analysis(data)
                                   [] f = 2 -> generate_single_analysis_pdf(data)
                                   [] f = 3 -> format_single_analysis(data)
                         IN  Emission(Render(old_service_data).lines)
                                 = Emission(Render(new_service_data).lines)

\* a comparison has been displayed and exported for two aggregates that are
\* equal as mappings, were built in different orders, and hold two
\* subcategories of one category
C18_Witness ==
    /\ DetailRendered
    /\ AsMapping(old_service_data.d) = AsMapping(new_service_data.d)
    /\ old_service_data.d # new_service_data.d
    /\ \E i \in 1..Len(old_service_data.d) : Len(old_service_data.d[i].val) = 2
    /\ Emission(displayed.left) = Emission(displayed.right)

----------------------------------------------------------------------------
(* C19 *)

\* C19: two invocations of the aggregation that run concurrently on their
\* own inputs, interleaved in any way, each return what the invocation
\* returns when it runs alone on its input: the aggregate (or None) is a
\* function of the file, and the error names the columns the file lacks.
C19_ConcurrentInvocationsIndependent ==
    \A t \in ThreadIds :
        threads[t].pc = "returned" =>
            /\ threads[t].result = analyze_azure_services(threads[t].file)
            /\ threads[t].error_msg = required_columns \ threads[t].file.columns

\* thread 1 has returned a non-empty aggregate while thread 2, started on
\* another file, is in the middle of its loop
C19_Witness ==
    /\ threads[1].pc = "returned"
    /\ Truthy(threads[1].result)
    /\ threads[2].pc = "loop"
    /\ threads[2].file # threads[1].file
    /\ locals[2].it = 2
    /\ locals[2].service_data # <<>>

----------------------------------------------------------------------------
(* C20 *)

\* an aggregate reduced to its category keys
CategoriesOnly(data) ==
    IF data.some
    THEN Dict([i \in 1..Len(data.d) |-> [key |-> data.d[i].key, val |-> <<>>]])
    ELSE data

\* C20: the diff depends on the category key sets only.  Two aggregates
\* with the same categories have no missing and no added category, whatever
\* their subcategories, units and totals; and the diff of two aggregates is
\* the diff of the two reduced to their category keys.
C20_DiffDependsOnCategoriesOnly ==
    /\ Compared =>
           /\ KeySet(old_service_data.d) = KeySet(new_service_data.d) =>
                  (missing_services = <<>> /\ added_services = <<>>)
           /\ <<missing_services, added_services>>
                  = compare_service_data(CategoriesOnly(old_service_data),
                                         CategoriesOnly(new_service_data))
    /\ (Analysed(1) /\ Analysed(2)) =>
           compare_service_data(old_service_data, new_service_data)
               = compare_service_data(CategoriesOnly(old_service_data),
                                      CategoriesOnly(new_service_data))

\* two aggregates with the same category, under it different subcategories,
\* units and totals, have been compared
C20_Witness ==
    /\ Compared
    /\ KeySet(old_service_data.d) = KeySet(new_service_data.d)
    /\ Triples(old_service_data.d) \cap Triples(new_service_data.d) = {}
    /\ old_service_data.d # <<>>
    /\ missing_services = <<>>
    /\ added_services = <<>>

----------------------------------------------------------------------------
(* C21 *)

\* the per-category totals a rendering printed, as a set of <<category, total>>
PrintedTotals(lines) ==
    {<<l.key, l.amount>> : l \in {x \in Range(lines) : x.level = "category_total"}}

\* a dict of totals as a set of <<category, total>>
TotalsSet(category_totals) == {<<e.key, e.val>> : e \in Range(category_totals)}

\* every unit total an aggregate holds
AllUnitTotals(sd) == Concat([i \in 1..Len(sd) |-> UnitTotals(sd[i].val)])

\* the single-file run has displayed and exported its aggregate
SingleDisplayed == Len(argv) = 1 /\ pc = "done" /\ printed = "Analysis Complete!"

\* the two implementations of calculate_category_totals and of
\* compare_service_data agree on the results of a finished run
ImplementationsAgree ==
    pc = "done" =>
    /\ \A k \in 1..Len(argv) :
           (Analysed(k) /\ Result(k).some) =>
               /\ AzureAnalyzerGUI_calculate_category_totals(Result(k).d)
                      = calculate_category_totals(Result(k).d)
               /\ AzureAnalyzerGUI_compare_service_data(Result(k), None)
                      = compare_service_data(Result(k), None)
               /\ AzureAnalyzerGUI_compare_service_data(None, Result(k))
                      = compare_service_data(None, Result(k))
    /\ (Analysed(1) /\ Analysed(2)) =>
           AzureAnalyzerGUI_compare_service_data(old_service_data, new_service_data)
               = compare_service_data(old_service_data, new_service_data)

----------------------------------------------------------------------------
(* C22 *)

\* what the thread j computed, as run_analysis / run_comparison stores it
Computed(j) ==
    IF jobs[j].kind = "single"
    THEN [type |-> "single", single |-> jobs[j].old_data, comparison |-> NoPair]
    ELSE [type |-> "comparison", single |-> None,
          comparison |-> [some |-> TRUE, old |-> jobs[j].old_data, new |-> jobs[j].new_data]]

\* one analysis was started, it has succeeded and finished, every callback
\* it queued has run, and the user has not pressed Clear Results meanwhile
OneAnalysisSucceeded ==
    /\ jobs[1].pc = "done"
    /\ jobs[2].pc = "idle"
    /\ history.finished = <<[job |-> 1, ok |-> TRUE]>>
    /\ after_queue = <<>>
    /\ ui.pc = "idle"
    /\ ~history.cleared

\* C22, as claimed: with one analysis in flight, once the thread of a
\* successful analyze_single (analyze_comparison) has finished and all the
\* callbacks it queued have run, in whatever order the thread and the UI
\* thread took their steps, last_analysis_type is "single" ("comparison")
\* and the stored data is what the thread computed: the clear_results it
\* queued has not erased its result.
C22_QueuedClearKeepsResult ==
    OneAnalysisSucceeded =>
        /\ app.last_analysis_type = Computed(1).type
        /\ jobs[1].kind = "single" => app.last_single_data = Computed(1).single
        /\ jobs[1].kind = "comparison" => app.last_comparison_data = Computed(1).comparison

----------------------------------------------------------------------------
(* C23 *)

\* the UI thread is free to run generate_pdf
CanRunGeneratePdf == ui = [pc |-> "idle", dialog |-> "none"]

\* C23, as claimed: whenever the UI thread can run generate_pdf, also
\* while a thread is between two of its assignments, last_analysis_type =
\* "single" implies that last_single_data is a non-empty aggregate and
\* last_analysis_type = "comparison" implies that last_comparison_data is a
\* pair of aggregates, none of them None; and generate_pdf never fails on
\* the data it hands to a PDF generator.
C23_TypeImpliesData ==
    /\ CanRunGeneratePdf =>
           /\ app.last_analysis_type = "single" => Truthy(app.last_single_data)
           /\ app.last_analysis_type = "comparison" =>
                  /\ app.last_comparison_data.some
                  /\ app.last_comparison_data.old.some
                  /\ app.last_comparison_data.new.some
    /\ report.message # "PDF Generation Error"

----------------------------------------------------------------------------
(* C24 *)

Last(xs) == xs[Len(xs)]

\* generate_pdf, run now, writes no PDF and says "Please run an analysis first."
WouldRefuse == app.last_analysis_type = "None"

\* no thread of an analysis is running
NoneInFlight == \A j \in JobIds : jobs[j].pc \in {"idle", "done"}

\* C24, as claimed: generate_pdf refuses whenever no analysis has succeeded
\* since start-up or since the last clear_results, and whenever the
\* analysis that finished most recently failed.
C24_FailedAnalysisNotExportable ==
    /\ ~history.succeeded => WouldRefuse
    /\ (NoneInFlight /\ history.finished # <<>> /\ ~Last(history.finished).ok) => WouldRefuse

----------------------------------------------------------------------------
(* C25 *)

\* C25, as claimed: the file names generate_pdf writes into a report are
\* the names of the files whose analysis produced the data of the report.
C25_ReportNamesAnalysedFiles ==
    report.written => report.names = report.sources

----------------------------------------------------------------------------
(* C26 *)

\* the <<category, subcategory>> pairs of an aggregate
Pairs(agg) == UNION {{<<c.key, s.key>> : s \in Range(c.val)} : c \in Range(agg)}

\* C26: the aggregate analyze_azure_services returns, and the aggregate
\* under construction after every row of the loop, has no empty inner
\* level: every category holds at least one subcategory and every
\* subcategory at least one unit; and the returned aggregate holds a key
\* at a level only if a surviving row normalized to it: its categories, its
\* (category, subcategory) pairs and its triples are those of the surviving
\* rows of the file.
C26_NoEmptyInnerLevel ==
    \A k \in 1..Len(argv) :
        /\ ((Analysed(k) /\ Result(k).some) \/ (call = k /\ pc = "loop")) =>
               \A c \in Range(Aggregate(k)) :
                   /\ c.val # <<>>
                   /\ \A s \in Range(c.val) : s.val # <<>>
        /\ (JustReturned(k) /\ Result(k).some) =>
               LET keys == {Triple(r) : r \in Range(SurvivingRows(argv[k].rows))}
               IN  /\ KeySet(Result(k).d) = {t[1] : t \in keys}
                   /\ Pairs(Result(k).d) = {<<t[1], t[2]>> : t \in keys}
                   /\ Triples(Result(k).d) = keys

\* C26 witness: a returned aggregate with a category of two subcategories,
\* of a file one of whose rows did not survive
C26_Witness ==
    /\ JustReturned(1) /\ old_service_data.some
    /\ Len(argv[1].rows) > Len(SurvivingRows(argv[1].rows))
    /\ \E c \in Range(old_service_data.d) : Len(c.val) = 2 /\ \A s \in Range(c.val) : s.val # <<>>

----------------------------------------------------------------------------
(* C27 *)

Min(a, b) == IF a < b THEN a ELSE b

\* the categories the section lists
Listed == {sorted_by_total[i].key : i \in 1..Len(sorted_by_total)}

\* C27: the top-categories section of every report lists exactly
\* min(5, number of categories) categories, no category twice, each with
\* its total, in non-increasing order of total, and every category it does
\* not list has a total less than or equal to the total of every category
\* it lists.
C27_TopCategories ==
    section # "none" =>
        /\ Len(sorted_by_total) = Min(TopCount, Len(top_totals))
        /\ Cardinality(Listed) = Len(sorted_by_total)
        /\ \A i \in 1..Len(sorted_by_total) :
               /\ Has(top_totals, sorted_by_total[i].key)
               /\ Get(top_totals, sorted_by_total[i].key) = sorted_by_total[i].val
        /\ \A i \in 1..Len(sorted_by_total) - 1 :
               sorted_by_total[i].val >= sorted_by_total[i + 1].val
        /\ \A e \in Range(top_totals) :
               e.key \notin Listed =>
                   \A i \in 1..Len(sorted_by_total) : e.val <= sorted_by_total[i].val

\* C27 witness: six categories of three different totals, given in
\* ascending order of total; five are listed and the one left out has the
\* least total
C27_Witness ==
    /\ section = "display_service_analysis"
    /\ Len(top_totals) = 6
    /\ \A i \in 1..5 : top_totals[i].val <= top_totals[i + 1].val
    /\ Cardinality({e.val : e \in Range(top_totals)}) = 3
    /\ Len(sorted_by_total) = 5
    /\ sorted_by_total[1].val = 2
    /\ top_totals[1].key \notin Listed

====
